---- MODULE Spec2Model ----
(***************************************************************************)
(* A model of hlavi-core: the ticket aggregate (status state machine,      *)
(* date range, acceptance criteria), the identifier parsers, the Board's   *)
(* identifier counter and the file-backed storage of tickets and Board.    *)
(*                                                                         *)
(* Text (Rust String / &str) is a sequence of one-character strings, so    *)
(* that formatting and parsing are computed, not assumed.  Option<T> is a  *)
(* sequence of length 0 (None) or 1 (Some).  DateTime<Utc> is an integer.  *)
(***************************************************************************)
EXTENDS Integers, Sequences, FiniteSets, TLC

VARIABLES
    ticket,     \* the Ticket value under test (domain/ticket.rs, struct Ticket)
    now,        \* the ambient clock read by Utc::now()
    last,       \* the last ticket operation: its name, arguments and result
    board,      \* a Board value in memory (domain/board.rs, struct Board)
    minted,     \* history: the identifiers next_ticket_id has returned on `board`
    boardLast,  \* the last Board operation and what it returned
    boardFile,  \* the content of <root>/.hlavi/board.json, None when absent
    saves,      \* history: how many save_board writes have completed
    proc,       \* per process: its position in load_board/next_ticket_id/save_board
    input,      \* the text handed to an identifier parser
    parsedId,   \* None, or which parser read `input` and what it returned
    rootDir,    \* does <root>/.hlavi exist
    ticketsDir, \* does <root>/.hlavi/tickets exist
    gitignore,  \* does <root>/.hlavi/.gitignore exist
    ticketFiles,\* per identifier: the content of tickets/<id>.json, None when absent
    storeLast,  \* the last Storage call of the single caller and what it returned
    initialized,\* history: has initialize() completed on this store
    storedIds,  \* history: the identifiers saved and not deleted since
    savedTickets, \* history: per identifier, the Ticket last saved and not deleted
    foreignEntries, \* names in the tickets directory that save_ticket did not write
    raceFiles,  \* per path: the blocks of a file two callers write, None when absent
    writer,     \* per caller: its save call and how far fs::write has got
    writeOrder, \* history: the callers in the order their writes completed
    tickets,    \* the slice of Tickets handed to sort_tickets
    field,      \* the SortField handed to sort_tickets
    order,      \* the SortOrder handed to sort_tickets
    sortInput,  \* history: None, or the slice as it was when sort_tickets began
    searcher    \* a search_tickets call that runs while another caller deletes

ticketVars == <<ticket, now, last>>
boardVars  == <<board, minted, boardLast>>
storeVars  == <<boardFile, saves, proc>>
parseVars  == <<input, parsedId>>
tornVars   == <<raceFiles, writer, writeOrder>>
sortVars   == <<tickets, field, order, sortInput>>
fsVars     == <<rootDir, ticketsDir, gitignore, ticketFiles, storeLast,
                initialized, storedIds, savedTickets, foreignEntries>>
vars       == <<ticket, now, last, board, minted, boardLast, boardFile, saves, proc,
                input, parsedId, rootDir, ticketsDir, gitignore, ticketFiles,
                storeLast, initialized, storedIds, savedTickets, foreignEntries,
                raceFiles, writer, writeOrder, tickets, field, order, sortInput,
                searcher>>

----------------------------------------------------------------------------
(* Bounds of the model *)

MaxClock == 2
MaxDate == 2
MaxCriteria == 2
MaxTicketNumber == 6
MaxCycles == 2
MaxOrdinals == 3
MaxLen == 5
MaxCounter == 12
MaxSaves == 2

----------------------------------------------------------------------------
(* Option<T> and Result<(), HlaviError> *)

None == <<>>
Some(x) == <<x>>
IsSome(o) == o # <<>>

Ok == <<"Ok">>
Err(kind, a, b) == <<"Err", kind, a, b>>
IsOk(r) == r[1] = "Ok"
ErrKind(r) == IF r[1] = "Err" THEN r[2] ELSE "none"

----------------------------------------------------------------------------
(* Text: decimal formatting and parsing *)

DigitChars == <<"0", "1", "2", "3", "4", "5", "6", "7", "8", "9">>

IsDigit(c) == \E d \in 1..10 : DigitChars[d] = c
DigitValue(c) == (CHOOSE d \in 1..10 : DigitChars[d] = c) - 1

\* format!("{}", n) for an unsigned integer
RECURSIVE Decimal(_)
Decimal(n) ==
    IF n < 10 THEN <<DigitChars[n + 1]>>
    ELSE Decimal(n \div 10) \o <<DigitChars[(n % 10) + 1]>>

RECURSIVE DigitsValue(_, _)
DigitsValue(s, acc) ==
    IF s = <<>> THEN acc
    ELSE DigitsValue(Tail(s), acc * 10 + DigitValue(Head(s)))

\* str::parse::<usize>() / parse::<u32>(): an optional leading '+', then a
\* non-empty run of decimal digits.  (Overflow of the integer type needs more
\* characters than the texts of this model have.)
ParseUnsigned(s) ==
    LET digits == IF s # <<>> /\ Head(s) = "+" THEN Tail(s) ELSE s
    IN  IF digits # <<>> /\ \A i \in 1..Len(digits) : IsDigit(digits[i])
        THEN Some(DigitsValue(digits, 0))
        ELSE None

\* TicketId::new(counter)
TicketIdNew(counter) == <<"H", "L", "A">> \o Decimal(counter)

----------------------------------------------------------------------------
(* TicketId and TaskId *)

\* u32::MAX as str::parse::<u32>() compares against it
U32MaxDigits == <<"4", "2", "9", "4", "9", "6", "7", "2", "9", "5">>

RECURSIVE StripLeadingZeros(_)
StripLeadingZeros(s) ==
    IF Len(s) > 1 /\ Head(s) = "0" THEN StripLeadingZeros(Tail(s)) ELSE s

\* a <= b for two digit texts of the same length
RECURSIVE DigitsLeq(_, _)
DigitsLeq(a, b) ==
    IF a = <<>> THEN TRUE
    ELSE IF DigitValue(Head(a)) # DigitValue(Head(b))
         THEN DigitValue(Head(a)) < DigitValue(Head(b))
         ELSE DigitsLeq(Tail(a), Tail(b))

\* str::parse::<u32>().is_ok(): an optional leading '+', a non-empty run of
\* decimal digits, and a value of at most u32::MAX
ParsesAsU32(s) ==
    LET digits == IF s # <<>> /\ Head(s) = "+" THEN Tail(s) ELSE s
        value == StripLeadingZeros(digits)
    IN  /\ digits # <<>>
        /\ \A i \in 1..Len(digits) : IsDigit(digits[i])
        /\ \/ Len(value) < Len(U32MaxDigits)
           \/ Len(value) = Len(U32MaxDigits) /\ DigitsLeq(value, U32MaxDigits)

\* s.starts_with(prefix)
StartsWith(s, prefix) ==
    Len(s) >= Len(prefix) /\ SubSeq(s, 1, Len(prefix)) = prefix

\* variant: at least two characters after the prefix
TicketIdFromStrLong(s) ==
    IF StartsWith(s, <<"H", "L", "A">>) /\ Len(s) > 4
    THEN IF ParsesAsU32(SubSeq(s, 4, Len(s)))
         THEN <<"Ok", s>>
         ELSE Err("InvalidTicketId", s, None)
    ELSE Err("InvalidTicketId", s, None)

\* TicketId::from_str: Ok carries the identifier's text
TicketIdFromStr(s) ==
    IF StartsWith(s, <<"H", "L", "A">>) /\ Len(s) >= 4
    THEN IF ParsesAsU32(SubSeq(s, 4, Len(s)))
         THEN <<"Ok", s>>
         ELSE Err("InvalidTicketId", s, None)
    ELSE Err("InvalidTicketId", s, None)

\* char::to_uppercase on the characters of the model's texts
UpperChar(c) ==
    CASE c = "h" -> "H"
      [] c = "l" -> "L"
      [] c = "a" -> "A"
      [] OTHER -> c

\* str::to_uppercase
ToUppercase(s) == [i \in 1..Len(s) |-> UpperChar(s[i])]

\* TaskId::DEFAULT_PREFIX
DefaultPrefix == <<"H", "L", "A">>

\* TaskId::from_str: Ok carries the normalized text
TaskIdFromStr(s) ==
    LET normalized == ToUppercase(s)
        prefix == DefaultPrefix
    IN  IF StartsWith(normalized, prefix) /\ Len(normalized) > Len(prefix)
        THEN IF ParsesAsU32(SubSeq(normalized, Len(prefix) + 1, Len(normalized)))
             THEN <<"Ok", normalized>>
             ELSE Err("InvalidTaskId", s, None)
        ELSE Err("InvalidTaskId", s, None)

\* the characters the texts of the model are written in
Alphabet == {"H", "L", "A", "h", "l", "a", "1", "+"}

\* counters handed to TicketId::new; the last is the largest value of the
\* model's integers
Counters == 0..MaxCounter \cup {99, 100, 2147483647}

\* texts handed to the parsers: every text over Alphabet up to MaxLen
\* characters, the text of every counter, and texts around u32::MAX
Texts ==
    UNION {[1..k -> Alphabet] : k \in 0..MaxLen}
      \cup {TicketIdNew(n) : n \in Counters}
      \cup {<<"H", "L", "A">> \o U32MaxDigits,
            <<"H", "L", "A">> \o <<"4", "2", "9", "4", "9", "6", "7", "2", "9", "6">>,
            <<"H", "L", "A", "0", "1">>,
            <<"H", "L", "A", "-", "1">>,
            <<"H", "L", "A", "1", " ">>}

\* "…".parse::<TicketId>()
ParseTicketId ==
    /\ parsedId = None
    /\ parsedId' = Some([parser |-> "TicketId", res |-> TicketIdFromStr(input)])
    /\ UNCHANGED <<input, ticketVars, boardVars, storeVars, fsVars, tornVars, sortVars, searcher>>

\* "…".parse::<TaskId>()
ParseTaskId ==
    /\ parsedId = None
    /\ parsedId' = Some([parser |-> "TaskId", res |-> TaskIdFromStr(input)])
    /\ UNCHANGED <<input, ticketVars, boardVars, storeVars, fsVars, tornVars, sortVars, searcher>>

----------------------------------------------------------------------------
(* TicketStatus *)

Statuses == {"New", "Open", "InProgress", "Pending", "Review", "Done", "Closed"}

\* impl fmt::Display for TicketStatus
StatusDisplay(s) == IF s = "InProgress" THEN "In Progress" ELSE s

\* variant: one more arm, New -> InProgress
CanTransitionToSkippingOpen(from, target) ==
    \/ from = "New" /\ target = "Open"
    \/ from = "New" /\ target = "InProgress"
    \/ from = "Open" /\ target \in {"InProgress", "Closed"}
    \/ from = "InProgress" /\ target \in {"Pending", "Review", "Open"}
    \/ from = "Pending" /\ target \in {"Review", "InProgress"}
    \/ from = "Review" /\ target \in {"Done", "InProgress"}
    \/ from = "Done" /\ target \in {"Closed", "InProgress"}
    \/ from = target

\* variant: one more arm, Closed -> Open
CanTransitionToReopening(from, target) ==
    \/ CanTransitionToSkippingOpen(from, target) /\ ~(from = "New" /\ target = "InProgress")
    \/ from = "Closed" /\ target = "Open"

\* variant: without the arms that leave Pending
CanTransitionToPendingStuck(from, target) ==
    /\ CanTransitionToSkippingOpen(from, target)
    /\ ~(from = "New" /\ target = "InProgress")
    /\ ~(from = "Pending" /\ target # "Pending")

\* variant: one more arm, InProgress -> Done
CanTransitionToFinishing(from, target) ==
    \/ CanTransitionToSkippingOpen(from, target) /\ ~(from = "New" /\ target = "InProgress")
    \/ from = "InProgress" /\ target = "Done"

\* TicketStatus::can_transition_to: the match arms in their order
CanTransitionTo(from, target) ==
    CASE from = "New" /\ target = "Open" -> TRUE
      [] from = "Open" /\ target = "InProgress" -> TRUE
      [] from = "Open" /\ target = "Closed" -> TRUE
      [] from = "InProgress" /\ target = "Pending" -> TRUE
      [] from = "InProgress" /\ target = "Review" -> TRUE
      [] from = "InProgress" /\ target = "Open" -> TRUE
      [] from = "Pending" /\ target = "Review" -> TRUE
      [] from = "Pending" /\ target = "InProgress" -> TRUE
      [] from = "Review" /\ target = "Done" -> TRUE
      [] from = "Review" /\ target = "InProgress" -> TRUE
      [] from = "Done" /\ target = "Closed" -> TRUE
      [] from = "Done" /\ target = "InProgress" -> TRUE
      [] from = target -> TRUE
      [] OTHER -> FALSE

----------------------------------------------------------------------------
(* Inputs of the ticket operations *)

Dates == 1..MaxDate
Descriptions == {<<"d">>}
Reasons == {None, Some(<<"r">>)}
\* criterion descriptions; "2" is also a decimal index
AcDescriptions == {<<"2">>, <<"A", "C">>}
\* more texts for remove_acceptance_criterion: a third index, a signed and a
\* zero-padded number
RemoveIdentifiersWide ==
    {<<"1">>, <<"2">>, <<"3">>, <<"0">>, <<"+", "1">>, <<"0", "2">>,
     <<"A", "C">>, <<"x">>}
\* texts handed to remove_acceptance_criterion
RemoveIdentifiers == {<<"1">>, <<"2">>, <<"0">>, <<"A", "C">>, <<"x">>}

----------------------------------------------------------------------------
(* AcceptanceCriteria *)

\* AcceptanceCriteria::new
AcceptanceCriteriaNew(id, description) ==
    [id |-> id, description |-> description, completed |-> FALSE,
     created_at |-> now, completed_at |-> None]

\* AcceptanceCriteria::mark_completed
AcMarkCompleted(ac) ==
    [ac EXCEPT !.completed = TRUE, !.completed_at = Some(now)]

\* variant: completed_at is left in place
AcMarkIncompleteKeepingStamp(ac) ==
    [ac EXCEPT !.completed = FALSE]

\* AcceptanceCriteria::mark_incomplete
AcMarkIncomplete(ac) ==
    [ac EXCEPT !.completed = FALSE, !.completed_at = None]

\* AcceptanceCriteria::toggle
AcToggle(ac) ==
    IF ac.completed THEN AcMarkIncomplete(ac) ELSE AcMarkCompleted(ac)

----------------------------------------------------------------------------
(* Ticket *)

\* Ticket::new(id, title)
TicketNew(id, title) ==
    [id |-> id, title |-> title, description |-> None, status |-> "New",
     acceptance_criteria |-> <<>>, created_at |-> now, updated_at |-> now,
     agent_assigned |-> FALSE, rejection_reason |-> None,
     start_date |-> None, end_date |-> None]

Record(op, args, res) == [op |-> op, args |-> args, res |-> res]

othersUnchangedByTicket ==
    UNCHANGED <<boardVars, storeVars, parseVars, fsVars, tornVars, sortVars, searcher>>

\* Ticket::set_description
SetDescription(d) ==
    /\ ticket' = [ticket EXCEPT !.description = Some(d), !.updated_at = now]
    /\ last' = Record("set_description", <<d>>, Ok)
    /\ UNCHANGED now
    /\ othersUnchangedByTicket

\* variant: >= in place of >
SetStartDateRejectsEqual(t, date) ==
    IsSome(t.end_date) /\ date >= t.end_date[1]

\* Ticket::set_start_date, the guard of its early return
SetStartDateRejects(t, date) ==
    IsSome(t.end_date) /\ date > t.end_date[1]

\* Ticket::set_start_date
SetStartDate(date) ==
    /\ IF SetStartDateRejects(ticket, date)
       THEN /\ last' = Record("set_start_date", <<date>>,
                              Err("InvalidDateRange", date, ticket.end_date[1]))
            /\ UNCHANGED ticket
       ELSE /\ ticket' = [ticket EXCEPT !.start_date = Some(date), !.updated_at = now]
            /\ last' = Record("set_start_date", <<date>>, Ok)
    /\ UNCHANGED now
    /\ othersUnchangedByTicket

\* variant: the comparison turned round
SetEndDateRejectsLater(t, date) ==
    IsSome(t.start_date) /\ date > t.start_date[1]

\* Ticket::set_end_date, the guard of its early return
SetEndDateRejects(t, date) ==
    IsSome(t.start_date) /\ date < t.start_date[1]

\* Ticket::set_end_date
SetEndDate(date) ==
    /\ IF SetEndDateRejects(ticket, date)
       THEN /\ last' = Record("set_end_date", <<date>>,
                              Err("InvalidDateRange", ticket.start_date[1], date))
            /\ UNCHANGED ticket
       ELSE /\ ticket' = [ticket EXCEPT !.end_date = Some(date), !.updated_at = now]
            /\ last' = Record("set_end_date", <<date>>, Ok)
    /\ UNCHANGED now
    /\ othersUnchangedByTicket

\* Ticket::clear_start_date
ClearStartDate ==
    /\ ticket' = [ticket EXCEPT !.start_date = None, !.updated_at = now]
    /\ last' = Record("clear_start_date", <<>>, Ok)
    /\ UNCHANGED now
    /\ othersUnchangedByTicket

\* variant: updated_at is not refreshed
ClearEndDateKeepingStamp ==
    /\ ticket' = [ticket EXCEPT !.end_date = None]
    /\ last' = Record("clear_end_date", <<>>, Ok)
    /\ UNCHANGED now
    /\ othersUnchangedByTicket

\* Ticket::clear_end_date
ClearEndDate ==
    /\ ticket' = [ticket EXCEPT !.end_date = None, !.updated_at = now]
    /\ last' = Record("clear_end_date", <<>>, Ok)
    /\ UNCHANGED now
    /\ othersUnchangedByTicket

\* variant: >= in place of >
SetDateRangeRejectsEqual(start, end) == start >= end

\* Ticket::set_date_range, the guard of its early return
SetDateRangeRejects(start, end) == start > end

\* Ticket::set_date_range
SetDateRange(start, end) ==
    /\ IF SetDateRangeRejects(start, end)
       THEN /\ last' = Record("set_date_range", <<start, end>>,
                              Err("InvalidDateRange", start, end))
            /\ UNCHANGED ticket
       ELSE /\ ticket' = [ticket EXCEPT !.start_date = Some(start),
                                        !.end_date = Some(end),
                                        !.updated_at = now]
            /\ last' = Record("set_date_range", <<start, end>>, Ok)
    /\ UNCHANGED now
    /\ othersUnchangedByTicket

\* Ticket::add_acceptance_criterion (its two Utc::now() reads give one value)
AddAcceptanceCriterionWithin(description, limit) ==
    /\ Len(ticket.acceptance_criteria) < limit
    /\ LET id == Len(ticket.acceptance_criteria) + 1
       IN  ticket' = [ticket EXCEPT
                !.acceptance_criteria =
                    Append(@, AcceptanceCriteriaNew(id, description)),
                !.updated_at = now]
    /\ last' = Record("add_acceptance_criterion", <<description>>, Ok)
    /\ UNCHANGED now
    /\ othersUnchangedByTicket

AddAcceptanceCriterion(description) ==
    AddAcceptanceCriterionWithin(description, MaxCriteria)

\* variant: the ordinals are renumbered 1..n after the removal
RemoveAtRenumbering(seq, i) ==
    LET rest == SubSeq(seq, 1, i - 1) \o SubSeq(seq, i + 1, Len(seq))
    IN  [k \in 1..Len(rest) |-> [rest[k] EXCEPT !.id = k]]

\* Vec::remove(i - 1): the element at position i (from 1) is taken out
RemoveAt(seq, i) == SubSeq(seq, 1, i - 1) \o SubSeq(seq, i + 1, Len(seq))

\* variant: the last match in place of the first
PositionOfLast(criteria, identifier) ==
    IF \E i \in 1..Len(criteria) : criteria[i].description = identifier
    THEN CHOOSE i \in 1..Len(criteria) :
            /\ criteria[i].description = identifier
            /\ \A j \in (i + 1)..Len(criteria) : criteria[j].description # identifier
    ELSE 0

\* iter().position(|ac| ac.description == identifier), from 1; 0 when absent
PositionOf(criteria, identifier) ==
    IF \E i \in 1..Len(criteria) : criteria[i].description = identifier
    THEN CHOOSE i \in 1..Len(criteria) :
            /\ criteria[i].description = identifier
            /\ \A j \in 1..(i - 1) : criteria[j].description # identifier
    ELSE 0

\* Ticket::remove_acceptance_criterion
RemoveAcceptanceCriterion(identifier) ==
    /\ LET criteria == ticket.acceptance_criteria
           parsed == ParseUnsigned(identifier)
           byIndex == /\ IsSome(parsed)
                      /\ parsed[1] > 0
                      /\ parsed[1] <= Len(criteria)
           pos == PositionOf(criteria, identifier)
       IN  IF byIndex
           THEN /\ ticket' = [ticket EXCEPT
                        !.acceptance_criteria = RemoveAt(criteria, parsed[1]),
                        !.updated_at = now]
                /\ last' = Record("remove_acceptance_criterion", <<identifier>>, Ok)
           ELSE IF pos > 0
           THEN /\ ticket' = [ticket EXCEPT
                        !.acceptance_criteria = RemoveAt(criteria, pos),
                        !.updated_at = now]
                /\ last' = Record("remove_acceptance_criterion", <<identifier>>, Ok)
           ELSE /\ last' = Record("remove_acceptance_criterion", <<identifier>>,
                                  Err("AcceptanceCriteriaNotFound", None, None))
                /\ UNCHANGED ticket
    /\ UNCHANGED now
    /\ othersUnchangedByTicket

\* variant: a call without a reason keeps the stored one
TransitionToKeepingReason(new_status, rejection_reason) ==
    /\ IF ~CanTransitionTo(ticket.status, new_status)
       THEN /\ last' = Record("transition_to", <<new_status, rejection_reason>>,
                              Err("InvalidStatusTransition",
                                  StatusDisplay(ticket.status),
                                  StatusDisplay(new_status)))
            /\ UNCHANGED ticket
       ELSE /\ ticket' = [ticket EXCEPT
                    !.status = new_status,
                    !.rejection_reason =
                        IF IsSome(rejection_reason) THEN rejection_reason ELSE @,
                    !.updated_at = now]
            /\ last' = Record("transition_to", <<new_status, rejection_reason>>, Ok)
    /\ UNCHANGED now
    /\ othersUnchangedByTicket

\* variant: the fields are assigned before the transition is checked
TransitionToAssigningFirst(new_status, rejection_reason) ==
    /\ ticket' = [ticket EXCEPT !.status = new_status,
                                !.rejection_reason = rejection_reason,
                                !.updated_at = now]
    /\ last' = Record("transition_to", <<new_status, rejection_reason>>,
                      IF CanTransitionTo(ticket.status, new_status) THEN Ok
                      ELSE Err("InvalidStatusTransition",
                               StatusDisplay(ticket.status),
                               StatusDisplay(new_status)))
    /\ UNCHANGED now
    /\ othersUnchangedByTicket

\* variant: Done is refused unless the criteria list is non-empty and every
\* criterion is completed
TransitionToCheckingCriteria(new_status, rejection_reason) ==
    /\ IF \/ ~CanTransitionTo(ticket.status, new_status)
          \/ /\ new_status = "Done"
             /\ \/ ticket.acceptance_criteria = <<>>
                \/ \E i \in 1..Len(ticket.acceptance_criteria) :
                        ~ticket.acceptance_criteria[i].completed
       THEN /\ last' = Record("transition_to", <<new_status, rejection_reason>>,
                              Err("InvalidStatusTransition",
                                  StatusDisplay(ticket.status),
                                  StatusDisplay(new_status)))
            /\ UNCHANGED ticket
       ELSE /\ ticket' = [ticket EXCEPT !.status = new_status,
                                        !.rejection_reason = rejection_reason,
                                        !.updated_at = now]
            /\ last' = Record("transition_to", <<new_status, rejection_reason>>, Ok)
    /\ UNCHANGED now
    /\ othersUnchangedByTicket

\* variant: the reason is stored before the transition is checked
TransitionToStoringReasonFirst(new_status, rejection_reason) ==
    /\ IF ~CanTransitionTo(ticket.status, new_status)
       THEN /\ last' = Record("transition_to", <<new_status, rejection_reason>>,
                              Err("InvalidStatusTransition",
                                  StatusDisplay(ticket.status),
                                  StatusDisplay(new_status)))
            /\ ticket' = [ticket EXCEPT !.rejection_reason = rejection_reason]
       ELSE /\ ticket' = [ticket EXCEPT !.status = new_status,
                                        !.rejection_reason = rejection_reason,
                                        !.updated_at = now]
            /\ last' = Record("transition_to", <<new_status, rejection_reason>>, Ok)
    /\ UNCHANGED now
    /\ othersUnchangedByTicket

\* Ticket::transition_to
TransitionTo(new_status, rejection_reason) ==
    /\ IF ~CanTransitionTo(ticket.status, new_status)
       THEN /\ last' = Record("transition_to", <<new_status, rejection_reason>>,
                              Err("InvalidStatusTransition",
                                  StatusDisplay(ticket.status),
                                  StatusDisplay(new_status)))
            /\ UNCHANGED ticket
       ELSE /\ ticket' = [ticket EXCEPT !.status = new_status,
                                        !.rejection_reason = rejection_reason,
                                        !.updated_at = now]
            /\ last' = Record("transition_to", <<new_status, rejection_reason>>, Ok)
    /\ UNCHANGED now
    /\ othersUnchangedByTicket

\* iter().all(|ac| ac.completed): the loop stops at the first incomplete one
RECURSIVE AllCompleted(_)
AllCompleted(criteria) ==
    IF criteria = <<>> THEN TRUE
    ELSE IF ~Head(criteria).completed THEN FALSE
    ELSE AllCompleted(Tail(criteria))

\* variant: without the is_empty test
AllAcceptanceCriteriaCompletedVacuous(t) ==
    AllCompleted(t.acceptance_criteria)

\* Ticket::all_acceptance_criteria_completed
AllAcceptanceCriteriaCompleted(t) ==
    ~(Len(t.acceptance_criteria) = 0) /\ AllCompleted(t.acceptance_criteria)

\* variant: without the status test
CanMarkDoneAnyStatus(t) ==
    AllAcceptanceCriteriaCompleted(t)

\* Ticket::can_mark_done
CanMarkDone(t) ==
    t.status = "Review" /\ AllAcceptanceCriteriaCompleted(t)

\* variant: completing a criterion refreshes the ticket's updated_at
MarkCompletedTouching(i) ==
    /\ i \in 1..Len(ticket.acceptance_criteria)
    /\ ticket' = [ticket EXCEPT !.acceptance_criteria[i] = AcMarkCompleted(@),
                                !.updated_at = now]
    /\ last' = Record("mark_completed", <<i>>, Ok)
    /\ UNCHANGED now
    /\ othersUnchangedByTicket

\* ticket.acceptance_criteria[i].mark_completed() on the public field
MarkCompleted(i) ==
    /\ i \in 1..Len(ticket.acceptance_criteria)
    /\ ticket' = [ticket EXCEPT !.acceptance_criteria[i] = AcMarkCompleted(@)]
    /\ last' = Record("mark_completed", <<i>>, Ok)
    /\ UNCHANGED now
    /\ othersUnchangedByTicket

\* ticket.acceptance_criteria[i].mark_incomplete() on the public field
MarkIncomplete(i) ==
    /\ i \in 1..Len(ticket.acceptance_criteria)
    /\ ticket' = [ticket EXCEPT !.acceptance_criteria[i] = AcMarkIncomplete(@)]
    /\ last' = Record("mark_incomplete", <<i>>, Ok)
    /\ UNCHANGED now
    /\ othersUnchangedByTicket

\* ticket.acceptance_criteria[i].toggle() on the public field
Toggle(i) ==
    /\ i \in 1..Len(ticket.acceptance_criteria)
    /\ ticket' = [ticket EXCEPT !.acceptance_criteria[i] = AcToggle(@)]
    /\ last' = Record("toggle", <<i>>, Ok)
    /\ UNCHANGED now
    /\ othersUnchangedByTicket

\* time passes between two calls: Utc::now() does not go back
Tick ==
    /\ now < MaxClock
    /\ now' = now + 1
    /\ last' = Record("tick", <<>>, Ok)
    /\ UNCHANGED ticket
    /\ othersUnchangedByTicket

----------------------------------------------------------------------------
(* Board *)

\* BoardConfig::default: the columns as (name, status, agent_enabled, agent_mode)
Column(name, status) ==
    [name |-> name, status |-> status, agent_enabled |-> FALSE, agent_mode |-> None]
WithAgent(col, mode) ==
    [col EXCEPT !.agent_enabled = TRUE, !.agent_mode = Some(mode)]
BoardConfigDefault ==
    [name |-> "Default Board",
     columns |-> << Column("New", "New"),
                    Column("Open", "Open"),
                    WithAgent(Column("In Progress", "InProgress"), "Unattended"),
                    Column("Pending", "Pending"),
                    Column("Review", "Review"),
                    Column("Done", "Done"),
                    Column("Closed", "Closed") >>]

\* variant: the counter starts at 0
BoardNewFromZero(config) ==
    [config |-> config, tickets |-> {}, next_ticket_number |-> 0]

\* Board::new; `tickets` is the HashMap<String, TicketId> as a set of (key, value)
BoardNew(config) ==
    [config |-> config, tickets |-> {}, next_ticket_number |-> 1]

\* Board::default
BoardDefault == BoardNew(BoardConfigDefault)

\* variant: the counter is not incremented
NextTicketIdOfNoIncrement(b) ==
    [id |-> TicketIdNew(b.next_ticket_number), board |-> b]

\* Board::next_ticket_id as a function of the Board: the identifier returned
\* and the Board afterwards
NextTicketIdOf(b) ==
    [id |-> TicketIdNew(b.next_ticket_number),
     board |-> [b EXCEPT !.next_ticket_number = @ + 1]]

\* HashMap::insert(key, value): an entry with the key is replaced
MapInsert(m, k, v) == {e \in m : e[1] # k} \cup {<<k, v>>}

\* variant: registering also advances the counter
AddTicketOfCounting(b, ticket_id) ==
    [b EXCEPT !.tickets = MapInsert(@, ticket_id, ticket_id),
              !.next_ticket_number = @ + 1]

\* Board::add_ticket as a function of the Board: the key is
\* ticket_id.as_str().to_string(), the text the TicketId wraps
AddTicketOf(b, ticket_id) ==
    [b EXCEPT !.tickets = MapInsert(@, ticket_id, ticket_id)]

othersUnchangedByBoard ==
    UNCHANGED <<ticketVars, storeVars, parseVars, fsVars, tornVars, sortVars, searcher>>

\* board.next_ticket_id()
NextTicketId ==
    /\ board.next_ticket_number < MaxTicketNumber
    /\ LET r == NextTicketIdOf(board)
       IN  /\ board' = r.board
           /\ minted' = Append(minted, r.id)
           /\ boardLast' = Record("next_ticket_id", <<>>, r.id)
    /\ othersUnchangedByBoard

\* board.add_ticket(ticket_id), for any identifier the caller holds
AddTicket(ticket_id) ==
    /\ board' = AddTicketOf(board, ticket_id)
    /\ boardLast' = Record("add_ticket", <<ticket_id>>, Ok)
    /\ UNCHANGED minted
    /\ othersUnchangedByBoard

MaxColumns == 3

\* variant: the last column with the status
GetColumnForStatusOfLast(b, status) ==
    LET cols == b.config.columns
        hits == {i \in 1..Len(cols) : cols[i].status = status}
    IN  IF hits = {} THEN None
        ELSE Some(cols[CHOOSE i \in hits : \A j \in hits : j <= i])

\* Board::get_column_for_status: columns.iter().find(|col| &col.status == status)
GetColumnForStatusOf(b, status) ==
    LET cols == b.config.columns
        hits == {i \in 1..Len(cols) : cols[i].status = status}
    IN  IF hits = {} THEN None
        ELSE Some(cols[CHOOSE i \in hits : \A j \in hits : i <= j])

\* Board::is_agent_enabled_for_status: .map(|col| col.agent_enabled).unwrap_or(false)
IsAgentEnabledForStatusOf(b, status) ==
    LET col == GetColumnForStatusOf(b, status)
    IN  IF IsSome(col) THEN col[1].agent_enabled ELSE FALSE

\* Board::get_agent_mode_for_status: .and_then(|col| col.agent_mode.clone())
GetAgentModeForStatusOf(b, status) ==
    LET col == GetColumnForStatusOf(b, status)
    IN  IF IsSome(col) THEN col[1].agent_mode ELSE None

\* board.get_column_for_status(&status)
GetColumnForStatus(status) ==
    /\ boardLast' = Record("get_column_for_status", <<status>>,
                           GetColumnForStatusOf(board, status))
    /\ UNCHANGED <<board, minted>>
    /\ othersUnchangedByBoard

\* board.is_agent_enabled_for_status(&status)
IsAgentEnabledForStatus(status) ==
    /\ boardLast' = Record("is_agent_enabled_for_status", <<status>>,
                           IsAgentEnabledForStatusOf(board, status))
    /\ UNCHANGED <<board, minted>>
    /\ othersUnchangedByBoard

\* board.get_agent_mode_for_status(&status)
GetAgentModeForStatus(status) ==
    /\ boardLast' = Record("get_agent_mode_for_status", <<status>>,
                           GetAgentModeForStatusOf(board, status))
    /\ UNCHANGED <<board, minted>>
    /\ othersUnchangedByBoard

\* columns a caller may configure: two for InProgress that differ in name and
\* agent, one for New, one for Open with an attended agent, and one whose
\* agent_enabled was set on the public field without a mode
ColumnPool ==
    {Column("Doing", "InProgress"),
     WithAgent(Column("Bot", "InProgress"), "Attended"),
     Column("New", "New"),
     WithAgent(Column("Open", "Open"), "Unattended"),
     [Column("Check", "Review") EXCEPT !.agent_enabled = TRUE]}

\* the configurations handed to Board::new: the default one and every list of
\* at most MaxColumns columns
BoardConfigs ==
    {BoardConfigDefault} \cup
    {[name |-> "Custom", columns |-> cols] :
        cols \in UNION {[1..n -> ColumnPool] : n \in 0..MaxColumns}}

----------------------------------------------------------------------------
(* FileStorage: the Board document, and callers that mint identifiers *)

\* serde_json::to_string_pretty(board): the counter is written in decimal
SerializeBoard(b) ==
    [config |-> b.config, tickets |-> b.tickets,
     next_ticket_number |-> Decimal(b.next_ticket_number)]

\* serde_json::from_str::<Board>(contents)
DeserializeBoard(doc) ==
    [config |-> doc.config, tickets |-> doc.tickets,
     next_ticket_number |-> ParseUnsigned(doc.next_ticket_number)[1]]

Procs == {"p1", "p2"}

\* a caller before its first call: no Board loaded, no identifier obtained
ProcIdle ==
    [pc |-> "idle", board |-> None, id |-> None, snapshot |-> 0,
     loaded |-> None, cycles |-> 0]

othersUnchangedByStore ==
    UNCHANGED <<ticketVars, boardVars, parseVars, fsVars, tornVars, sortVars, searcher>>

\* FileStorage::load_board, called by process p
LoadBoard(p) ==
    /\ proc[p].pc \in {"idle", "saved"}
    /\ proc[p].cycles < MaxCycles
    /\ IF ~IsSome(boardFile)
       THEN proc' = [proc EXCEPT ![p].pc = "idle"]
       ELSE LET b == DeserializeBoard(boardFile[1])
            IN  proc' = [proc EXCEPT ![p] =
                    [pc |-> "loaded", board |-> Some(b), id |-> None,
                     snapshot |-> saves, loaded |-> Some(b.next_ticket_number),
                     cycles |-> @.cycles + 1]]
    /\ UNCHANGED <<boardFile, saves>>
    /\ othersUnchangedByStore

\* Board::next_ticket_id on the Board that process p loaded
MintId(p) ==
    /\ proc[p].pc = "loaded"
    /\ proc[p].board[1].next_ticket_number < MaxTicketNumber
    /\ LET r == NextTicketIdOf(proc[p].board[1])
       IN  proc' = [proc EXCEPT ![p].pc = "minted",
                                ![p].board = Some(r.board),
                                ![p].id = Some(r.id)]
    /\ UNCHANGED <<boardFile, saves>>
    /\ othersUnchangedByStore

\* variant: a write that steps over a stored counter that is not behind
SaveBoardContentMerged(stored, b) ==
    IF IsSome(stored)
       /\ DeserializeBoard(stored[1]).next_ticket_number >= b.next_ticket_number
    THEN Some(SerializeBoard(
            [b EXCEPT !.next_ticket_number =
                DeserializeBoard(stored[1]).next_ticket_number + 1]))
    ELSE Some(SerializeBoard(b))

\* FileStorage::save_board: the file content after fs::write, whatever was there
SaveBoardContent(stored, b) == Some(SerializeBoard(b))

\* FileStorage::save_board, called by process p with its Board
SaveBoard(p) ==
    /\ proc[p].pc = "minted"
    /\ boardFile' = SaveBoardContent(boardFile, proc[p].board[1])
    /\ saves' = saves + 1
    /\ proc' = [proc EXCEPT ![p].pc = "saved"]
    /\ othersUnchangedByStore

----------------------------------------------------------------------------
(* FileStorage: one caller, every file of the store *)

\* #[serde(rename_all = "lowercase")] on TicketStatus
StatusJson(s) ==
    CASE s = "New" -> "new"
      [] s = "Open" -> "open"
      [] s = "InProgress" -> "inprogress"
      [] s = "Pending" -> "pending"
      [] s = "Review" -> "review"
      [] s = "Done" -> "done"
      [] s = "Closed" -> "closed"

StatusFromJson(text) == CHOOSE s \in Statuses : StatusJson(s) = text

\* a JSON object without members
EmptyDoc == [k \in {} |-> k]

\* a DateTime<Utc> as serde writes it: the instant as text
TimeText(t) == Decimal(t)

\* a DateTime<Utc> read back from its text
TimeFromText(text) == ParseUnsigned(text)[1]

\* one element of acceptance_criteria in the document
SerializeCriterion(ac) ==
    [id |-> Decimal(ac.id), description |-> ac.description,
     completed |-> ac.completed, created_at |-> TimeText(ac.created_at),
     completed_at |->
        IF IsSome(ac.completed_at) THEN Some(TimeText(ac.completed_at[1])) ELSE None]

DeserializeCriterion(doc) ==
    [id |-> ParseUnsigned(doc.id)[1], description |-> doc.description,
     completed |-> doc.completed, created_at |-> TimeFromText(doc.created_at),
     completed_at |->
        IF IsSome(doc.completed_at) THEN Some(TimeFromText(doc.completed_at[1])) ELSE None]

\* serde_json::to_string_pretty(ticket): start_date and end_date are left
\* out when they are None (skip_serializing_if = "Option::is_none")
SerializeTicket(t) ==
    [id |-> t.id, title |-> t.title, description |-> t.description,
     status |-> StatusJson(t.status),
     acceptance_criteria |->
        [i \in 1..Len(t.acceptance_criteria) |->
            SerializeCriterion(t.acceptance_criteria[i])],
     created_at |-> TimeText(t.created_at), updated_at |-> TimeText(t.updated_at),
     agent_assigned |-> t.agent_assigned,
     rejection_reason |-> t.rejection_reason]
      @@ (IF IsSome(t.start_date)
          THEN [start_date |-> TimeText(t.start_date[1])] ELSE EmptyDoc)
      @@ (IF IsSome(t.end_date)
          THEN [end_date |-> TimeText(t.end_date[1])] ELSE EmptyDoc)

\* variant: the optional dates are not read
DeserializeTicketWithoutDates(doc) ==
    [id |-> doc.id, title |-> doc.title, description |-> doc.description,
     status |-> StatusFromJson(doc.status),
     acceptance_criteria |->
        [i \in 1..Len(doc.acceptance_criteria) |->
            DeserializeCriterion(doc.acceptance_criteria[i])],
     created_at |-> TimeFromText(doc.created_at),
     updated_at |-> TimeFromText(doc.updated_at),
     agent_assigned |-> doc.agent_assigned,
     rejection_reason |-> doc.rejection_reason,
     start_date |-> None, end_date |-> None]

\* serde_json::from_str::<Ticket>(contents): a missing date is None
\* (#[serde(default)])
DeserializeTicket(doc) ==
    [id |-> doc.id, title |-> doc.title, description |-> doc.description,
     status |-> StatusFromJson(doc.status),
     acceptance_criteria |->
        [i \in 1..Len(doc.acceptance_criteria) |->
            DeserializeCriterion(doc.acceptance_criteria[i])],
     created_at |-> TimeFromText(doc.created_at),
     updated_at |-> TimeFromText(doc.updated_at),
     agent_assigned |-> doc.agent_assigned,
     rejection_reason |-> doc.rejection_reason,
     start_date |->
        IF "start_date" \in DOMAIN doc THEN Some(TimeFromText(doc.start_date)) ELSE None,
     end_date |->
        IF "end_date" \in DOMAIN doc THEN Some(TimeFromText(doc.end_date)) ELSE None]

\* the identifiers of the tickets handed to the store: HLA2 and HLA10
StoreIds == {TicketIdNew(2), TicketIdNew(10)}

\* a ticket as the caller has worked on it: description, status, reason, a
\* completed criterion and a start date
WorkedTicket(id) ==
    [TicketNew(id, <<"T">>) EXCEPT
        !.description = Some(<<"d">>),
        !.status = "InProgress",
        !.rejection_reason = Some(<<"r">>),
        !.acceptance_criteria =
            <<AcMarkCompleted(AcceptanceCriteriaNew(1, <<"A", "C">>))>>,
        !.start_date = Some(1)]

\* the tickets handed to save_ticket: new, with both dates, and worked on
StoreTickets ==
    UNION {{TicketNew(id, <<"T">>),
            [TicketNew(id, <<"T">>) EXCEPT !.start_date = Some(1), !.end_date = Some(2)],
            WorkedTicket(id)} : id \in StoreIds}

\* the Boards handed to save_board: the default one, one that has minted, and
\* one that has HLA2 in its index
StoreBoards ==
    {BoardDefault, NextTicketIdOf(BoardDefault).board,
     AddTicketOf(BoardDefault, TicketIdNew(2))}

othersUnchangedByFs ==
    UNCHANGED <<ticketVars, boardVars, parseVars, proc, foreignEntries, tornVars, sortVars, searcher>>

\* variant: the default Board is written on every call
InitializeOverwriting ==
    /\ rootDir' = TRUE
    /\ ticketsDir' = TRUE
    /\ boardFile' = Some(SerializeBoard(BoardDefault))
    /\ saves' = saves
    /\ gitignore' = TRUE
    /\ initialized' = TRUE
    /\ storeLast' = Record("initialize", <<>>, Ok)
    /\ UNCHANGED <<ticketFiles, storedIds, savedTickets>>
    /\ UNCHANGED <<ticketVars, boardVars, parseVars, proc, foreignEntries, tornVars, sortVars, searcher>>

\* FileStorage::initialize
Initialize ==
    /\ rootDir' = TRUE
    /\ ticketsDir' = TRUE
    /\ IF ~IsSome(boardFile)
       THEN /\ boardFile' = SaveBoardContent(boardFile, BoardDefault)
            /\ saves' = saves + 1
       ELSE UNCHANGED <<boardFile, saves>>
    /\ gitignore' = TRUE
    /\ initialized' = TRUE
    /\ storeLast' = Record("initialize", <<>>, Ok)
    /\ UNCHANGED <<ticketFiles, storedIds, savedTickets>>
    /\ othersUnchangedByFs

\* variant: a ticket is refused while there is no Board document
SaveTicketRequiringBoard(t) ==
    /\ IF ~IsSome(boardFile)
       THEN /\ storeLast' = Record("save_ticket", <<t>>,
                                   Err("BoardNotInitialized", None, None))
            /\ UNCHANGED <<rootDir, ticketsDir, ticketFiles, storedIds,
                           savedTickets>>
       ELSE /\ rootDir' = TRUE
            /\ ticketsDir' = TRUE
            /\ ticketFiles' = [ticketFiles EXCEPT ![t.id] = Some(SerializeTicket(t))]
            /\ storedIds' = storedIds \cup {t.id}
            /\ savedTickets' = [savedTickets EXCEPT ![t.id] = Some(t)]
            /\ storeLast' = Record("save_ticket", <<t>>, Ok)
    /\ UNCHANGED <<boardFile, saves, gitignore, initialized>>
    /\ othersUnchangedByFs

\* FileStorage::save_ticket: create_dir_all makes the root directory too
SaveTicket(t) ==
    /\ rootDir' = TRUE
    /\ ticketsDir' = TRUE
    /\ ticketFiles' = [ticketFiles EXCEPT ![t.id] = Some(SerializeTicket(t))]
    /\ storedIds' = storedIds \cup {t.id}
    /\ savedTickets' = [savedTickets EXCEPT ![t.id] = Some(t)]
    /\ storeLast' = Record("save_ticket", <<t>>, Ok)
    /\ UNCHANGED <<boardFile, saves, gitignore, initialized>>
    /\ othersUnchangedByFs

\* FileStorage::load_ticket, what it returns
LoadTicketOf(files, id) ==
    IF ~IsSome(files[id])
    THEN Err("TicketNotFound", id, None)
    ELSE <<"Ok", DeserializeTicket(files[id][1])>>

\* FileStorage::load_ticket
LoadTicket(id) ==
    /\ storeLast' = Record("load_ticket", <<id>>, LoadTicketOf(ticketFiles, id))
    /\ UNCHANGED <<rootDir, ticketsDir, gitignore, ticketFiles, initialized,
                   storedIds, savedTickets, boardFile, saves>>
    /\ othersUnchangedByFs

\* variant: deleting a ticket gives its number back to the stored Board
DeleteTicketReclaiming(id) ==
    /\ IF ~IsSome(ticketFiles[id])
       THEN /\ storeLast' = Record("delete_ticket", <<id>>,
                                   Err("TicketNotFound", id, None))
            /\ UNCHANGED <<ticketFiles, storedIds, savedTickets, boardFile>>
       ELSE /\ ticketFiles' = [ticketFiles EXCEPT ![id] = None]
            /\ storedIds' = storedIds \ {id}
            /\ savedTickets' = [savedTickets EXCEPT ![id] = None]
            /\ storeLast' = Record("delete_ticket", <<id>>, Ok)
            /\ boardFile' =
                 IF IsSome(boardFile)
                    /\ DeserializeBoard(boardFile[1]).next_ticket_number > 1
                 THEN Some(SerializeBoard(
                        [DeserializeBoard(boardFile[1]) EXCEPT
                            !.next_ticket_number = @ - 1]))
                 ELSE boardFile
    /\ UNCHANGED <<rootDir, ticketsDir, gitignore, initialized, saves>>
    /\ othersUnchangedByFs

\* variant: the identifier is taken out of the stored Board's index as well
DeleteTicketCascading(id) ==
    /\ IF ~IsSome(ticketFiles[id])
       THEN /\ storeLast' = Record("delete_ticket", <<id>>,
                                   Err("TicketNotFound", id, None))
            /\ UNCHANGED <<ticketFiles, storedIds, savedTickets, boardFile>>
       ELSE /\ ticketFiles' = [ticketFiles EXCEPT ![id] = None]
            /\ storedIds' = storedIds \ {id}
            /\ savedTickets' = [savedTickets EXCEPT ![id] = None]
            /\ storeLast' = Record("delete_ticket", <<id>>, Ok)
            /\ boardFile' =
                 IF IsSome(boardFile)
                 THEN Some([boardFile[1] EXCEPT
                              !.tickets = {en \in @ : en[1] # id}])
                 ELSE boardFile
    /\ UNCHANGED <<rootDir, ticketsDir, gitignore, initialized, saves>>
    /\ othersUnchangedByFs

\* FileStorage::delete_ticket
DeleteTicket(id) ==
    /\ IF ~IsSome(ticketFiles[id])
       THEN /\ storeLast' = Record("delete_ticket", <<id>>,
                                   Err("TicketNotFound", id, None))
            /\ UNCHANGED <<ticketFiles, storedIds, savedTickets>>
       ELSE /\ ticketFiles' = [ticketFiles EXCEPT ![id] = None]
            /\ storedIds' = storedIds \ {id}
            /\ savedTickets' = [savedTickets EXCEPT ![id] = None]
            /\ storeLast' = Record("delete_ticket", <<id>>, Ok)
    /\ UNCHANGED <<rootDir, ticketsDir, gitignore, initialized, boardFile, saves>>
    /\ othersUnchangedByFs

\* self.ticket_file(id): the name of the file inside the tickets directory
TicketFileName(id) == id \o <<".", "j", "s", "o", "n">>

\* the position of the last '.' in a file name, 0 when there is none
LastDot(name) ==
    IF \E i \in 1..Len(name) : name[i] = "."
    THEN CHOOSE i \in 1..Len(name) :
            name[i] = "." /\ \A j \in (i + 1)..Len(name) : name[j] # "."
    ELSE 0

\* Path::extension: the text behind the last '.', none for a name without
\* '.' or with its only '.' in front
Extension(name) ==
    IF LastDot(name) <= 1 THEN None
    ELSE Some(SubSeq(name, LastDot(name) + 1, Len(name)))

\* Path::file_stem: the name without its extension
FileStem(name) ==
    IF LastDot(name) <= 1 THEN name
    ELSE SubSeq(name, 1, LastDot(name) - 1)

\* the characters of identifiers and titles in the order of their bytes
ByteOrder ==
    <<"+", "0", "1", "2", "3", "4", "5", "6", "7", "8", "9",
      "A", "C", "D", "H", "L", "T", "X", "a", "c", "d", "h", "l", "t", "x">>

CharRank(c) == CHOOSE i \in 1..Len(ByteOrder) : ByteOrder[i] = c

\* a.as_str().cmp(b.as_str()) == Ordering::Less
RECURSIVE TextLess(_, _)
TextLess(a, b) ==
    IF b = <<>> THEN FALSE
    ELSE IF a = <<>> THEN TRUE
    ELSE IF Head(a) # Head(b) THEN CharRank(Head(a)) < CharRank(Head(b))
    ELSE TextLess(Tail(a), Tail(b))

\* ids.sort_by(|a, b| a.as_str().cmp(b.as_str())) on distinct identifiers
RECURSIVE SortedIds(_)
SortedIds(ids) ==
    IF ids = {} THEN <<>>
    ELSE LET least == CHOOSE x \in ids : \A y \in ids : x = y \/ TextLess(x, y)
         IN  <<least>> \o SortedIds(ids \ {least})

\* the entries read_dir finds in the tickets directory
DirEntries(files, foreign) ==
    {TicketFileName(id) : id \in {i \in DOMAIN files : IsSome(files[i])}} \cup foreign

\* variant: the extension of an entry is not looked at
IsListedAnyExtension(name) ==
    IsOk(TicketIdFromStr(FileStem(name)))

\* the filter of list_ticket_ids: extension json, stem a valid identifier
IsListed(name) ==
    /\ Extension(name) = Some(<<"j", "s", "o", "n">>)
    /\ IsOk(TicketIdFromStr(FileStem(name)))

\* FileStorage::list_ticket_ids, what it returns
ListTicketIdsOf(dirExists, files, foreign) ==
    IF ~dirExists THEN <<>>
    ELSE SortedIds({FileStem(name) :
                       name \in {n \in DirEntries(files, foreign) : IsListed(n)}})

\* FileStorage::list_ticket_ids
ListTicketIds ==
    /\ storeLast' = Record("list_ticket_ids", <<>>,
                           <<"Ok", ListTicketIdsOf(ticketsDir, ticketFiles,
                                                   foreignEntries)>>)
    /\ UNCHANGED <<rootDir, ticketsDir, gitignore, ticketFiles, initialized,
                   storedIds, savedTickets, boardFile, saves>>
    /\ othersUnchangedByFs

\* variant: the board file is not looked at
IsInitializedOfRootOnly(root, file) == root

\* FileStorage::is_initialized, what it returns
IsInitializedOf(root, file) == root /\ IsSome(file)

\* FileStorage::is_initialized
IsInitialized ==
    /\ storeLast' = Record("is_initialized", <<>>,
                           <<"Ok", IsInitializedOf(rootDir, boardFile)>>)
    /\ UNCHANGED <<rootDir, ticketsDir, gitignore, ticketFiles, initialized,
                   storedIds, savedTickets, boardFile, saves>>
    /\ othersUnchangedByFs

\* char::to_lowercase on the letters of the model's texts
LowerChar(c) ==
    CASE c = "T" -> "t"
      [] c = "D" -> "d"
      [] c = "A" -> "a"
      [] c = "C" -> "c"
      [] c = "X" -> "x"
      [] OTHER -> c

\* str::to_lowercase
ToLowercase(s) == [i \in 1..Len(s) |-> LowerChar(s[i])]

\* str::contains(&pattern)
Contains(text, pattern) ==
    \E i \in 0..(Len(text) - Len(pattern)) :
        SubSeq(text, i + 1, i + Len(pattern)) = pattern

\* variant: the acceptance criteria are not looked at
SearchMatchesWithoutCriteria(t, query_lower) ==
    \/ Contains(ToLowercase(t.title), query_lower)
    \/ IsSome(t.description) /\ Contains(ToLowercase(t.description[1]), query_lower)

\* search_tickets: title_matches || description_matches || ac_matches
SearchMatches(t, query_lower) ==
    LET title_matches == Contains(ToLowercase(t.title), query_lower)
        description_matches ==
            IF IsSome(t.description)
            THEN Contains(ToLowercase(t.description[1]), query_lower)
            ELSE FALSE
        ac_matches ==
            \E i \in 1..Len(t.acceptance_criteria) :
                Contains(ToLowercase(t.acceptance_criteria[i].description),
                         query_lower)
    IN  title_matches \/ description_matches \/ ac_matches

\* the loop of search_tickets over ticket_ids: the first load that fails
\* ends the call with its error
RECURSIVE SearchLoop(_, _, _, _)
SearchLoop(ticket_ids, files, query_lower, matching_tickets) ==
    IF ticket_ids = <<>> THEN <<"Ok", matching_tickets>>
    ELSE LET loaded == LoadTicketOf(files, Head(ticket_ids))
         IN  IF ~IsOk(loaded) THEN loaded
             ELSE SearchLoop(Tail(ticket_ids), files, query_lower,
                             IF SearchMatches(loaded[2], query_lower)
                             THEN Append(matching_tickets, loaded[2])
                             ELSE matching_tickets)

\* FileStorage::search_tickets, what it returns
SearchTicketsOf(dirExists, files, foreign, query) ==
    SearchLoop(ListTicketIdsOf(dirExists, files, foreign), files,
               ToLowercase(query), <<>>)

\* FileStorage::search_tickets
SearchTickets(query) ==
    /\ storeLast' = Record("search_tickets", <<query>>,
                           SearchTicketsOf(ticketsDir, ticketFiles,
                                           foreignEntries, query))
    /\ UNCHANGED <<rootDir, ticketsDir, gitignore, ticketFiles, initialized,
                   storedIds, savedTickets, boardFile, saves>>
    /\ othersUnchangedByFs

\* no search_tickets call is under way
SearcherIdle ==
    [pc |-> "idle", query_lower |-> <<>>, ticket_ids |-> <<>>,
     matching_tickets |-> <<>>, listed |-> <<>>, doomed |-> FALSE,
     result |-> None]

SearchIdle == searcher = SearcherIdle

\* is the file of some identifier still to be loaded missing
SomeFileMissing(files, ticket_ids) ==
    \E i \in 1..Len(ticket_ids) : ~IsSome(files[ticket_ids[i]])

othersUnchangedBySearcher ==
    UNCHANGED <<ticketVars, boardVars, storeVars, parseVars, fsVars, tornVars,
                sortVars>>

\* search_tickets up to the loop: list_ticket_ids and query.to_lowercase();
\* with nothing listed the call returns at once
SearchBegin(query) ==
    /\ searcher.pc # "loading"
    /\ LET ticket_ids == ListTicketIdsOf(ticketsDir, ticketFiles, foreignEntries)
       IN  searcher' =
             [pc |-> IF ticket_ids = <<>> THEN "done" ELSE "loading",
              query_lower |-> ToLowercase(query),
              ticket_ids |-> ticket_ids,
              matching_tickets |-> <<>>,
              listed |-> ticket_ids,
              doomed |-> FALSE,
              result |-> IF ticket_ids = <<>> THEN Some(<<"Ok", <<>>>>) ELSE None]
    /\ othersUnchangedBySearcher

\* variant: a ticket that cannot be loaded is skipped
SearchLoadNextSkipping ==
    /\ searcher.pc = "loading"
    /\ LET loaded == LoadTicketOf(ticketFiles, Head(searcher.ticket_ids))
           rest == Tail(searcher.ticket_ids)
           matching ==
               IF IsOk(loaded) /\ SearchMatches(loaded[2], searcher.query_lower)
               THEN Append(searcher.matching_tickets, loaded[2])
               ELSE searcher.matching_tickets
           missing == SomeFileMissing(ticketFiles, searcher.ticket_ids)
       IN  searcher' =
             [searcher EXCEPT
                !.pc = IF rest = <<>> THEN "done" ELSE "loading",
                !.ticket_ids = rest,
                !.matching_tickets = matching,
                !.doomed = @ \/ missing,
                !.result = IF rest = <<>> THEN Some(<<"Ok", matching>>) ELSE None]
    /\ othersUnchangedBySearcher

\* one pass of the loop of search_tickets: load_ticket(&id)? ends the call
\* with the error, otherwise the ticket is tested and the loop goes on or the
\* call returns the matches; `doomed` records that a listed file was gone
SearchLoadNext ==
    /\ searcher.pc = "loading"
    /\ LET loaded == LoadTicketOf(ticketFiles, Head(searcher.ticket_ids))
           rest == Tail(searcher.ticket_ids)
           matching ==
               IF IsOk(loaded) /\ SearchMatches(loaded[2], searcher.query_lower)
               THEN Append(searcher.matching_tickets, loaded[2])
               ELSE searcher.matching_tickets
           missing == SomeFileMissing(ticketFiles, searcher.ticket_ids)
       IN  IF ~IsOk(loaded)
           THEN searcher' = [searcher EXCEPT !.pc = "done",
                                             !.doomed = TRUE,
                                             !.result = Some(loaded)]
           ELSE searcher' =
                  [searcher EXCEPT
                     !.pc = IF rest = <<>> THEN "done" ELSE "loading",
                     !.ticket_ids = rest,
                     !.matching_tickets = matching,
                     !.doomed = @ \/ missing,
                     !.result =
                        IF rest = <<>> THEN Some(<<"Ok", matching>>) ELSE None]
    /\ othersUnchangedBySearcher

\* the texts searched for
Queries ==
    {<<>>, <<"t">>, <<"T">>, <<"D">>, <<"a", "C">>, <<"c">>, <<"c", "a">>,
     <<"x">>}

\* names of files that something other than save_ticket leaves in the tickets
\* directory: n.txt, R.json, hla1.json, HLA2 and HLA2.txt
ForeignNames ==
    {<<"n", ".", "t", "x", "t">>,
     <<"R", ".", "j", "s", "o", "n">>,
     <<"h", "l", "a", "1", ".", "j", "s", "o", "n">>,
     <<"H", "L", "A", "2">>,
     <<"H", "L", "A", "2", ".", "t", "x", "t">>}

\* a file appears in the tickets directory without a save_ticket call
PutForeignEntry(name) ==
    /\ ticketsDir
    /\ foreignEntries' = foreignEntries \cup {name}
    /\ UNCHANGED <<rootDir, ticketsDir, gitignore, ticketFiles, storeLast,
                   initialized, storedIds, savedTickets, boardFile, saves>>
    /\ UNCHANGED <<ticketVars, boardVars, parseVars, proc, tornVars, sortVars, searcher>>

\* FileStorage::save_board, one caller handing over a Board value
StoreSaveBoard(b) ==
    /\ saves < MaxSaves
    /\ rootDir' = TRUE
    /\ boardFile' = SaveBoardContent(boardFile, b)
    /\ saves' = saves + 1
    /\ storeLast' = Record("save_board", <<b>>, Ok)
    /\ UNCHANGED <<ticketsDir, gitignore, ticketFiles, initialized, storedIds,
                   savedTickets>>
    /\ othersUnchangedByFs

\* variant: a missing board file reads as the default Board
LoadBoardOfDefaulting(file) ==
    IF ~IsSome(file)
    THEN <<"Ok", BoardDefault>>
    ELSE <<"Ok", DeserializeBoard(file[1])>>

\* FileStorage::load_board, what it returns
LoadBoardOf(file) ==
    IF ~IsSome(file)
    THEN Err("BoardNotInitialized", None, None)
    ELSE <<"Ok", DeserializeBoard(file[1])>>

\* FileStorage::load_board, one caller
StoreLoadBoard ==
    /\ storeLast' = Record("load_board", <<>>, LoadBoardOf(boardFile))
    /\ UNCHANGED <<rootDir, ticketsDir, gitignore, ticketFiles, initialized,
                   storedIds, savedTickets, boardFile, saves>>
    /\ othersUnchangedByFs

\* Board::next_ticket_id on the Board the single writer p loaded; the
\* identifier it returns is added to the history `minted`
WriterMintId(p) ==
    /\ proc[p].pc = "loaded"
    /\ proc[p].board[1].next_ticket_number < MaxTicketNumber
    /\ LET r == NextTicketIdOf(proc[p].board[1])
       IN  /\ proc' = [proc EXCEPT ![p].pc = "minted",
                                   ![p].board = Some(r.board),
                                   ![p].id = Some(r.id)]
           /\ minted' = Append(minted, r.id)
    /\ UNCHANGED <<boardFile, saves, board, boardLast>>
    /\ UNCHANGED <<ticketVars, parseVars, fsVars, tornVars, sortVars, searcher>>

----------------------------------------------------------------------------
(* FileStorage: two callers saving at the same time *)

\* self.board_file(): the name of the Board document
BoardFileName == <<"b", "o", "a", "r", "d", ".", "j", "s", "o", "n">>

\* the length of the text serde_json writes for a document, in blocks: one
\* per member, per acceptance criterion and per entry of the Board's index
DocSize(doc) ==
    Cardinality(DOMAIN doc)
      + (IF "acceptance_criteria" \in DOMAIN doc
         THEN Len(doc.acceptance_criteria) ELSE 0)
      + (IF "tickets" \in DOMAIN doc THEN Cardinality(doc.tickets) ELSE 0)

\* the text of a document as its blocks
Blocks(doc) == [i \in 1..DocSize(doc) |-> <<doc, i>>]

\* write_all(contents) through a handle at offset 0: the blocks of the file
\* behind the written ones stay
WriteAt0(content, blocks) ==
    blocks \o SubSeq(content, Len(blocks) + 1, Len(content))

\* the save calls two callers can make: save_ticket(t) and save_board(b)
WriteJobs ==
    {[call |-> "save_ticket", path |-> TicketFileName(t.id),
      value |-> SerializeTicket(t)] : t \in StoreTickets}
      \cup {[call |-> "save_board", path |-> BoardFileName,
             value |-> SerializeBoard(b)] : b \in StoreBoards}

RacePaths == {job.path : job \in WriteJobs}

othersUnchangedByWriter ==
    UNCHANGED <<ticketVars, boardVars, storeVars, parseVars, gitignore,
                ticketFiles, storeLast, initialized, storedIds, savedTickets,
                foreignEntries, sortVars, searcher>>

\* save_ticket / save_board, first line: ensure_directory_exists
EnsureDirectoryExists(p) ==
    /\ writer[p].pc = "start"
    /\ writer' = [writer EXCEPT ![p].pc = "ensured"]
    /\ rootDir' = TRUE
    /\ ticketsDir' = (ticketsDir \/ writer[p].job.call = "save_ticket")
    /\ UNCHANGED <<raceFiles, writeOrder>>
    /\ othersUnchangedByWriter

\* fs::write, File::create: the file is created or truncated
OpenTruncate(p) ==
    /\ writer[p].pc = "ensured"
    /\ writer' = [writer EXCEPT ![p].pc = "opened"]
    /\ raceFiles' = [raceFiles EXCEPT ![writer[p].job.path] = Some(<<>>)]
    /\ UNCHANGED <<rootDir, ticketsDir, writeOrder>>
    /\ othersUnchangedByWriter

\* fs::write, write_all: the text goes into the file from offset 0; the call
\* returns Ok
WriteAll(p) ==
    /\ writer[p].pc = "opened"
    /\ writer' = [writer EXCEPT ![p].pc = "done"]
    /\ raceFiles' = [raceFiles EXCEPT ![writer[p].job.path] =
                        Some(WriteAt0(@[1], Blocks(writer[p].job.value)))]
    /\ writeOrder' = Append(writeOrder, p)
    /\ UNCHANGED <<rootDir, ticketsDir>>
    /\ othersUnchangedByWriter

----------------------------------------------------------------------------
(* Specifications *)

TicketInit ==
    /\ now = 0
    /\ ticket = TicketNew(TicketIdNew(1), <<"T">>)
    /\ last = Record("new", <<>>, Ok)

BoardInit ==
    /\ board = BoardDefault
    /\ minted = <<>>
    /\ boardLast = Record("new", <<>>, Ok)

\* the store after initialize(): board.json holds the default Board
StoreInit ==
    /\ boardFile = Some(SerializeBoard(BoardDefault))
    /\ saves = 0
    /\ proc = [p \in Procs |-> ProcIdle]
    /\ rootDir = TRUE
    /\ ticketsDir = TRUE
    /\ gitignore = TRUE
    /\ ticketFiles = [id \in StoreIds |-> None]
    /\ storeLast = Record("initialize", <<>>, Ok)
    /\ initialized = TRUE
    /\ storedIds = {}
    /\ savedTickets = [id \in StoreIds |-> None]
    /\ foreignEntries = {}

\* a project directory in which no Storage call has been made
FreshStoreInit ==
    /\ boardFile = None
    /\ saves = 0
    /\ proc = [p \in Procs |-> ProcIdle]
    /\ rootDir = FALSE
    /\ ticketsDir = FALSE
    /\ gitignore = FALSE
    /\ ticketFiles = [id \in StoreIds |-> None]
    /\ storeLast = Record("new", <<>>, Ok)
    /\ initialized = FALSE
    /\ storedIds = {}
    /\ savedTickets = [id \in StoreIds |-> None]
    /\ foreignEntries = {}

----------------------------------------------------------------------------
(* sort_tickets *)

MaxTickets == 3

SortFields ==
    {"Id", "Title", "Status", "Created", "Updated", "Start", "End",
     "AcProgress", "AcCount"}
SortOrders == {"Ascending", "Descending"}

\* Ord::cmp on integers
IntCmp(a, b) ==
    IF a < b THEN "Less" ELSE IF a > b THEN "Greater" ELSE "Equal"

\* str::cmp
TextCmp(a, b) ==
    IF a = b THEN "Equal" ELSE IF TextLess(a, b) THEN "Less" ELSE "Greater"

\* Ordering::reverse
Reverse(cmp) ==
    CASE cmp = "Less" -> "Greater"
      [] cmp = "Greater" -> "Less"
      [] OTHER -> "Equal"

\* status_order inside compare_status
StatusOrder(s) ==
    CASE s = "New" -> 0
      [] s = "Open" -> 1
      [] s = "InProgress" -> 2
      [] s = "Pending" -> 3
      [] s = "Review" -> 4
      [] s = "Done" -> 5
      [] s = "Closed" -> 6

\* compare_status
CompareStatus(a, b) == IntCmp(StatusOrder(a), StatusOrder(b))

\* compare_option_dates: the four match arms
CompareOptionDates(a, b) ==
    CASE IsSome(a) /\ IsSome(b) -> IntCmp(a[1], b[1])
      [] IsSome(a) /\ ~IsSome(b) -> "Less"
      [] ~IsSome(a) /\ IsSome(b) -> "Greater"
      [] OTHER -> "Equal"

\* the number of completed criteria of a ticket
CompletedCount(t) ==
    Cardinality({i \in 1..Len(t.acceptance_criteria) :
                    t.acceptance_criteria[i].completed})

\* progress_pct inside compare_ac_progress, as the fraction (numerator,
\* denominator); 0.0 for a ticket without criteria
ProgressPct(t) ==
    IF t.acceptance_criteria = <<>> THEN <<0, 1>>
    ELSE <<CompletedCount(t), Len(t.acceptance_criteria)>>

\* compare_ac_progress: partial_cmp on the two quotients, which are never NaN
CompareAcProgress(a, b) ==
    IntCmp(ProgressPct(a)[1] * ProgressPct(b)[2],
           ProgressPct(b)[1] * ProgressPct(a)[2])

\* the closure handed to sort_by: the comparison for the field, reversed for
\* SortOrder::Descending
TicketCmp(a, b, f, o) ==
    LET cmp ==
            CASE f = "Id" -> TextCmp(a.id, b.id)
              [] f = "Title" -> TextCmp(ToLowercase(a.title), ToLowercase(b.title))
              [] f = "Status" -> CompareStatus(a.status, b.status)
              [] f = "Created" -> IntCmp(a.created_at, b.created_at)
              [] f = "Updated" -> IntCmp(a.updated_at, b.updated_at)
              [] f = "Start" -> CompareOptionDates(a.start_date, b.start_date)
              [] f = "End" -> CompareOptionDates(a.end_date, b.end_date)
              [] f = "AcProgress" -> CompareAcProgress(a, b)
              [] f = "AcCount" ->
                    IntCmp(Len(a.acceptance_criteria), Len(b.acceptance_criteria))
    IN  IF o = "Ascending" THEN cmp ELSE Reverse(cmp)

\* variant: an element goes in front of the elements it compares Equal to
InsertBeforeEqual(sorted, x, f, o) ==
    LET k == Cardinality({i \in 1..Len(sorted) :
                             TicketCmp(sorted[i], x, f, o) = "Less"})
    IN  SubSeq(sorted, 1, k) \o <<x>> \o SubSeq(sorted, k + 1, Len(sorted))

\* slice::sort_by is a stable sort: an element goes behind every element that
\* does not compare Greater than it
InsertStable(sorted, x, f, o) ==
    LET k == Cardinality({i \in 1..Len(sorted) :
                             TicketCmp(sorted[i], x, f, o) # "Greater"})
    IN  SubSeq(sorted, 1, k) \o <<x>> \o SubSeq(sorted, k + 1, Len(sorted))

\* sort_tickets as a function of the slice
RECURSIVE SortTicketsOf(_, _, _)
SortTicketsOf(ts, f, o) ==
    IF ts = <<>> THEN <<>>
    ELSE InsertStable(SortTicketsOf(SubSeq(ts, 1, Len(ts) - 1), f, o),
                      ts[Len(ts)], f, o)

\* the tickets handed to sort_tickets: they differ in every sortable field,
\* and each date is present on some and absent on others
SortTicketPool ==
    {[TicketNew(TicketIdNew(2), <<"C">>) EXCEPT
        !.created_at = 0, !.updated_at = 0],
     [TicketNew(TicketIdNew(10), <<"a">>) EXCEPT
        !.created_at = 1, !.updated_at = 2, !.status = "Done",
        !.start_date = Some(1), !.end_date = Some(2),
        !.acceptance_criteria =
            <<AcMarkCompleted(AcceptanceCriteriaNew(1, <<"A", "C">>))>>],
     [TicketNew(TicketIdNew(1), <<"c">>) EXCEPT
        !.created_at = 0, !.updated_at = 1, !.status = "Open",
        !.start_date = Some(2),
        !.acceptance_criteria =
            <<AcMarkCompleted(AcceptanceCriteriaNew(1, <<"A", "C">>)),
              AcceptanceCriteriaNew(2, <<"A", "C">>)>>],
     [TicketNew(TicketIdNew(3), <<"A">>) EXCEPT
        !.created_at = 2, !.updated_at = 2, !.status = "InProgress",
        !.end_date = Some(1),
        !.acceptance_criteria = <<AcceptanceCriteriaNew(1, <<"A", "C">>)>>]}

\* the slices of at most MaxTickets tickets
SortSlices == UNION {[1..n -> SortTicketPool] : n \in 0..MaxTickets}

othersUnchangedBySort ==
    UNCHANGED <<ticketVars, boardVars, storeVars, parseVars, fsVars, tornVars,
                searcher>>

\* sort_tickets(&mut tickets, field, order)
SortTickets ==
    /\ sortInput = None
    /\ sortInput' = Some(tickets)
    /\ tickets' = SortTicketsOf(tickets, field, order)
    /\ UNCHANGED <<field, order>>
    /\ othersUnchangedBySort

\* no slice has been handed to sort_tickets
SortIdle ==
    /\ tickets = <<>>
    /\ field = "Id"
    /\ order = "Ascending"
    /\ sortInput = None

\* no text has been handed to a parser
ParseIdle ==
    /\ input = <<>>
    /\ parsedId = None

\* no concurrent save is under way
TornIdle ==
    /\ raceFiles = [path \in RacePaths |-> None]
    /\ writer = [p \in Procs |-> [pc |-> "idle", job |-> None]]
    /\ writeOrder = <<>>

Init == TicketInit /\ BoardInit /\ StoreInit /\ ParseIdle /\ TornIdle /\ SortIdle /\ SearchIdle

\* FileStorage::new on a project directory without .hlavi
InitStore ==
    TicketInit /\ BoardInit /\ FreshStoreInit /\ ParseIdle /\ TornIdle /\ SortIdle /\ SearchIdle

\* two callers, each about to save a value, the two values different
InitTorn ==
    /\ TicketInit /\ BoardInit /\ FreshStoreInit /\ ParseIdle
    /\ raceFiles = [path \in RacePaths |-> None]
    /\ writer \in {w \in [Procs -> {[pc |-> "start", job |-> j] : j \in WriteJobs}] :
                      w["p1"].job # w["p2"].job}
    /\ writeOrder = <<>>
    /\ SortIdle /\ SearchIdle

\* a text is about to be parsed
InitParse ==
    /\ TicketInit /\ BoardInit /\ StoreInit
    /\ input \in Texts
    /\ parsedId = None
    /\ TornIdle
    /\ SortIdle /\ SearchIdle

\* a slice, a field and an order are about to be handed to sort_tickets
InitSort ==
    /\ TicketInit /\ BoardInit /\ StoreInit /\ ParseIdle /\ TornIdle
    /\ tickets \in SortSlices
    /\ field \in SortFields
    /\ order \in SortOrders
    /\ sortInput = None
    /\ SearchIdle

\* Board::new(config) for a configuration of the caller's choice
InitColumns ==
    /\ TicketInit /\ StoreInit /\ ParseIdle /\ TornIdle /\ SortIdle /\ SearchIdle
    /\ board \in {BoardNew(config) : config \in BoardConfigs}
    /\ minted = <<>>
    /\ boardLast = Record("new", <<>>, Ok)

\* the single writer starts on a fresh project directory, or on a store on
\* which it has minted HLA1 before
InitMint ==
    /\ TicketInit /\ ParseIdle /\ TornIdle /\ SortIdle /\ SearchIdle
    /\ board = BoardDefault
    /\ boardLast = Record("new", <<>>, Ok)
    /\ \/ FreshStoreInit /\ minted = <<>>
       \/ /\ boardFile = Some(SerializeBoard(NextTicketIdOf(BoardDefault).board))
          /\ minted = <<NextTicketIdOf(BoardDefault).id>>
          /\ saves = 1
          /\ proc = [p \in Procs |-> ProcIdle]
          /\ rootDir = TRUE
          /\ ticketsDir = TRUE
          /\ gitignore = TRUE
          /\ ticketFiles = [id \in StoreIds |-> None]
          /\ storeLast = Record("save_board", <<NextTicketIdOf(BoardDefault).board>>, Ok)
          /\ initialized = TRUE
          /\ storedIds = {}
          /\ savedTickets = [id \in StoreIds |-> None]
          /\ foreignEntries = {}

\* one Ticket under every mutator of impl Ticket, the clock standing still
Next ==
    \/ \E d \in Descriptions : SetDescription(d)
    \/ \E d \in Dates : SetStartDate(d)
    \/ \E d \in Dates : SetEndDate(d)
    \/ \E s \in Dates, e \in Dates : SetDateRange(s, e)
    \/ ClearStartDate
    \/ ClearEndDate
    \/ \E d \in AcDescriptions : AddAcceptanceCriterion(d)
    \/ \E x \in RemoveIdentifiers : RemoveAcceptanceCriterion(x)
    \/ \E s \in Statuses, r \in Reasons : TransitionTo(s, r)

Spec == Init /\ [][Next]_vars

\* the status of one Ticket, with time passing between the calls
WorkflowNext ==
    \/ \E s \in Statuses, r \in Reasons : TransitionTo(s, r)
    \/ Tick

SpecWorkflow == Init /\ [][WorkflowNext]_vars

\* the date range of one Ticket, with time passing between the calls
DatesNext ==
    \/ \E d \in Dates : SetStartDate(d)
    \/ \E d \in Dates : SetEndDate(d)
    \/ \E s \in Dates, e \in Dates : SetDateRange(s, e)
    \/ ClearStartDate
    \/ ClearEndDate
    \/ Tick

SpecDates == Init /\ [][DatesNext]_vars

\* the acceptance criteria of one Ticket and its status
CriteriaNext ==
    \/ \E d \in AcDescriptions : AddAcceptanceCriterion(d)
    \/ \E x \in RemoveIdentifiers : RemoveAcceptanceCriterion(x)
    \/ \E i \in 1..MaxCriteria : MarkCompleted(i)
    \/ \E i \in 1..MaxCriteria : MarkIncomplete(i)
    \/ \E i \in 1..MaxCriteria : Toggle(i)
    \/ \E s \in Statuses, r \in Reasons : TransitionTo(s, r)

SpecCriteria == Init /\ [][CriteriaNext]_vars

\* the criteria list of one Ticket, up to MaxOrdinals criteria
OrdinalsNext ==
    \/ \E d \in AcDescriptions : AddAcceptanceCriterionWithin(d, MaxOrdinals)
    \/ \E x \in RemoveIdentifiersWide : RemoveAcceptanceCriterion(x)
    \/ \E i \in 1..MaxOrdinals : MarkCompleted(i)

SpecOrdinals == Init /\ [][OrdinalsNext]_vars

\* adding and removing criteria, with time passing between the calls
RemoveNext ==
    \/ \E d \in AcDescriptions : AddAcceptanceCriterion(d)
    \/ \E x \in RemoveIdentifiersWide : RemoveAcceptanceCriterion(x)
    \/ Tick

SpecRemove == Init /\ [][RemoveNext]_vars

\* one Ticket under every mutator of impl Ticket while time passes; one
\* criterion description, a shorter criteria list and calls without a reason
\* keep the ticket small
ClockNext ==
    \/ \E d \in Descriptions : SetDescription(d)
    \/ \E d \in Dates : SetStartDate(d)
    \/ \E d \in Dates : SetEndDate(d)
    \/ \E s \in Dates, e \in Dates : SetDateRange(s, e)
    \/ ClearStartDate
    \/ ClearEndDate
    \/ AddAcceptanceCriterionWithin(<<"A", "C">>, MaxCriteria - 1)
    \/ \E x \in {<<"1">>, <<"x">>} : RemoveAcceptanceCriterion(x)
    \/ \E s \in Statuses : TransitionTo(s, None)
    \/ Tick

SpecClock == Init /\ [][ClockNext]_vars

\* the criteria of one Ticket completed, un-completed and toggled, with time
\* passing between the calls
MarksNext ==
    \/ AddAcceptanceCriterion(<<"A", "C">>)
    \/ \E i \in 1..MaxCriteria : MarkCompleted(i)
    \/ \E i \in 1..MaxCriteria : MarkIncomplete(i)
    \/ \E i \in 1..MaxCriteria : Toggle(i)
    \/ \E d \in Dates : SetStartDate(d)
    \/ Tick

SpecMarks == Init /\ [][MarksNext]_vars

\* transition_to on a Ticket that may carry a start date and a criterion,
\* with time passing between the calls
RejectedNext ==
    \/ \E s \in Statuses, r \in Reasons : TransitionTo(s, r)
    \/ \E d \in Dates : SetStartDate(d)
    \/ AddAcceptanceCriterionWithin(<<"A", "C">>, MaxCriteria - 1)
    \/ Tick

SpecRejected == Init /\ [][RejectedNext]_vars

\* one Board value: identifiers are minted and registered
BoardNext ==
    \/ NextTicketId
    \/ \E n \in 1..MaxTicketNumber : AddTicket(TicketIdNew(n))

SpecBoard == Init /\ [][BoardNext]_vars

\* two processes against one store, each minting by load, next_ticket_id, save
RaceNext ==
    \/ \E p \in Procs : LoadBoard(p)
    \/ \E p \in Procs : MintId(p)
    \/ \E p \in Procs : SaveBoard(p)

SpecRace == Init /\ [][RaceNext]_vars

\* one caller of the Storage operations on a fresh store
StoreNext ==
    \/ Initialize
    \/ \E t \in StoreTickets : SaveTicket(t)
    \/ \E id \in StoreIds : LoadTicket(id)
    \/ \E id \in StoreIds : DeleteTicket(id)
    \/ \E b \in StoreBoards : StoreSaveBoard(b)
    \/ StoreLoadBoard
    \/ IsInitialized

SpecStore == InitStore /\ [][StoreNext]_vars

\* tickets saved, deleted and listed, with foreign files in the directory
ListNext ==
    \/ \E t \in StoreTickets : SaveTicket(t)
    \/ \E id \in StoreIds : DeleteTicket(id)
    \/ \E id \in StoreIds : LoadTicket(id)
    \/ \E b \in StoreBoards : StoreSaveBoard(b)
    \/ \E name \in ForeignNames : PutForeignEntry(name)
    \/ ListTicketIds

SpecList == InitStore /\ [][ListNext]_vars

\* two save calls at the same time, each the steps of fs::write
TornNext ==
    \/ \E p \in Procs : EnsureDirectoryExists(p)
    \/ \E p \in Procs : OpenTruncate(p)
    \/ \E p \in Procs : WriteAll(p)

SpecTorn == InitTorn /\ [][TornNext]_vars

\* tickets saved, deleted and searched
SearchNext ==
    \/ \E t \in StoreTickets : SaveTicket(t)
    \/ \E id \in StoreIds : DeleteTicket(id)
    \/ \E q \in Queries : SearchTickets(q)

SpecSearch == InitStore /\ [][SearchNext]_vars

\* one text, read by one of the two identifier parsers
ParseNext ==
    \/ ParseTicketId
    \/ ParseTaskId

SpecParse == InitParse /\ [][ParseNext]_vars

\* sort_tickets on every slice, field and order
SortNext == SortTickets

\* one caller on a fresh store who never calls initialize
BareNext ==
    \/ \E t \in StoreTickets : SaveTicket(t)
    \/ \E id \in StoreIds : LoadTicket(id)
    \/ ListTicketIds
    \/ \E b \in StoreBoards : StoreSaveBoard(b)
    \/ StoreLoadBoard
    \/ IsInitialized

SpecBare == InitStore /\ [][BareNext]_vars

\* a search_tickets call, pass by pass, while another caller deletes
\* tickets; tickets are saved between searches
SearchRaceNext ==
    \/ \E t \in StoreTickets : searcher.pc # "loading" /\ SaveTicket(t)
    \/ \E id \in StoreIds : DeleteTicket(id)
    \/ \E q \in {<<"T">>, <<"d">>} : SearchBegin(q)
    \/ SearchLoadNext

SpecSearchRace == InitStore /\ [][SearchRaceNext]_vars

\* one writer minting by load_board, next_ticket_id, save_board, in any
\* order with initialize, save_ticket and delete_ticket
MintNext ==
    \/ LoadBoard("p1")
    \/ WriterMintId("p1")
    \/ SaveBoard("p1")
    \/ Initialize
    \/ \E id \in StoreIds : SaveTicket(TicketNew(id, <<"T">>))
    \/ \E id \in StoreIds : DeleteTicket(id)

SpecMint == InitMint /\ [][MintNext]_vars

\* the column queries on a Board of any configuration
ColumnsNext ==
    \/ \E st \in Statuses : GetColumnForStatus(st)
    \/ \E st \in Statuses : IsAgentEnabledForStatus(st)
    \/ \E st \in Statuses : GetAgentModeForStatus(st)

SpecColumns == InitColumns /\ [][ColumnsNext]_vars

SpecSort == InitSort /\ [][SortNext]_vars

----------------------------------------------------------------------------
(* Properties *)

\* the allowed-transition table as the specification lists it: 12 edges
AllowedEdges ==
    { <<"New", "Open">>,
      <<"Open", "InProgress">>, <<"Open", "Closed">>,
      <<"InProgress", "Pending">>, <<"InProgress", "Review">>,
      <<"InProgress", "Open">>,
      <<"Pending", "Review">>, <<"Pending", "InProgress">>,
      <<"Review", "Done">>, <<"Review", "InProgress">>,
      <<"Done", "Closed">>, <<"Done", "InProgress">> }

\* C1: a transition_to(b, r) call on a ticket in status a succeeds exactly
\* when a = b or (a, b) is one of the 12 edges of the table; for every other
\* pair it fails with InvalidStatusTransition.
C1_TransitionSucceedsExactlyOnTable ==
    [][\A b \in Statuses, r \in Reasons :
          TransitionTo(b, r) =>
             /\ IsOk(last'.res) <=>
                   (ticket.status = b \/ <<ticket.status, b>> \in AllowedEdges)
             /\ ~IsOk(last'.res) =>
                   ErrKind(last'.res) = "InvalidStatusTransition"]_vars

\* C1 witness: a call out of Closed was refused with InvalidStatusTransition
\* after the ticket walked the table up to Closed.
C1_Witness ==
    /\ last.op = "transition_to"
    /\ ErrKind(last.res) = "InvalidStatusTransition"
    /\ ticket.status = "Closed"
    /\ last.args[1] = "InProgress"

\* C2: from Ticket::new (status New) and under any sequence of the ticket's
\* mutators, the status changes only in a successful transition_to step, and
\* every such change goes along an edge of the table.
C2_StatusChangesOnlyByTransition ==
    /\ ticket.status = "New"
    /\ [][ticket'.status # ticket.status =>
            /\ last'.op = "transition_to"
            /\ IsOk(last'.res)
            /\ last'.args[1] = ticket'.status
            /\ <<ticket.status, ticket'.status>> \in AllowedEdges]_vars

\* C2 witness: the status has moved to Done on a ticket that also went
\* through description, date and criteria calls.
C2_Witness ==
    /\ ticket.status = "Done"
    /\ IsSome(ticket.description)
    /\ IsSome(ticket.start_date)
    /\ Len(ticket.acceptance_criteria) > 0
    /\ last.op = "remove_acceptance_criterion"

\* C3: after any sequence of set_start_date, set_end_date, set_date_range,
\* clear_start_date and clear_end_date calls, successful or failed, whenever
\* both dates are present start_date <= end_date.
C3_DatesOrdered ==
    (IsSome(ticket.start_date) /\ IsSome(ticket.end_date))
        => ticket.start_date[1] <= ticket.end_date[1]

\* C3 witness: both dates are present right after a refused set_end_date.
C3_Witness ==
    /\ last.op = "set_end_date"
    /\ ~IsOk(last.res)
    /\ IsSome(ticket.start_date)
    /\ IsSome(ticket.end_date)

\* the numeric part of an identifier, parsed from the text behind the prefix
NumericPart(id) == ParseUnsigned(SubSeq(id, 4, Len(id)))[1]

\* C4: under any sequence of next_ticket_id and add_ticket calls on one
\* Board, next_ticket_number never decreases and the numeric part of every
\* identifier the Board has minted is strictly less than next_ticket_number.
C4_CounterMonotoneAboveMinted ==
    /\ [](\A i \in 1..Len(minted) :
              NumericPart(minted[i]) < board.next_ticket_number)
    /\ [][board'.next_ticket_number >= board.next_ticket_number]_vars

\* C4 witness: identifiers were minted, and add_ticket registered one the
\* Board has not minted.
C4_Witness ==
    /\ Len(minted) >= 2
    /\ \E e \in board.tickets :
          NumericPart(e[2]) >= board.next_ticket_number

\* C5: on a fresh Board the k-th next_ticket_id call returns HLA<k> (HLA1,
\* then HLA2, ...), each call increments next_ticket_number by exactly one,
\* and no two calls return the same identifier.
C5_MintsInSequence ==
    /\ [](/\ \A k \in 1..Len(minted) :
                /\ SubSeq(minted[k], 1, 3) = <<"H", "L", "A">>
                /\ NumericPart(minted[k]) = k
                /\ Len(minted[k]) = 3 + Len(Decimal(k))
          /\ Len(minted) >= 1 => minted[1] = <<"H", "L", "A", "1">>
          /\ Len(minted) >= 2 => minted[2] = <<"H", "L", "A", "2">>
          /\ \A i, j \in 1..Len(minted) : i # j => minted[i] # minted[j])
    /\ [][Len(minted') # Len(minted) =>
            /\ board'.next_ticket_number = board.next_ticket_number + 1
            /\ boardLast'.res = minted'[Len(minted')]]_vars

\* C5 witness: the third call has returned HLA3.
C5_Witness ==
    /\ boardLast.op = "next_ticket_id"
    /\ boardLast.res = <<"H", "L", "A", "3">>
    /\ Len(minted) = 3

\* C6: when two processes each run load_board, next_ticket_id, save_board on
\* the same store and both load before either saves (both read the Board
\* document after the same number of writes), both obtain the same identifier
\* and the stored next_ticket_number has advanced by one only.
C6_RaceMintsDuplicate ==
    \A p \in Procs, q \in Procs :
        (/\ p # q
         /\ proc[p].pc = "saved"
         /\ proc[q].pc = "saved"
         /\ proc[p].snapshot = proc[q].snapshot)
        => /\ proc[p].id = proc[q].id
           /\ IsSome(proc[p].id)
           /\ DeserializeBoard(boardFile[1]).next_ticket_number
                 = proc[p].loaded[1] + 1
           /\ saves = proc[p].snapshot + 2

\* C6 witness: both processes loaded the fresh store before any write, both
\* saved, and both hold HLA1 while the store says the next number is 2.
C6_Witness ==
    /\ \A p \in Procs :
          /\ proc[p].pc = "saved"
          /\ proc[p].snapshot = 0
          /\ proc[p].id = Some(<<"H", "L", "A", "1">>)
    /\ DeserializeBoard(boardFile[1]).next_ticket_number = 2

\* C7: set_date_range(start, end) succeeds if and only if start <= end,
\* whatever dates the ticket held; on success the ticket holds start and end,
\* on failure it returns InvalidDateRange and both dates keep their values.
C7_SetDateRange ==
    [][\A s \in Dates, e \in Dates :
          SetDateRange(s, e) =>
             /\ IsOk(last'.res) <=> s <= e
             /\ IsOk(last'.res) =>
                   /\ ticket'.start_date = Some(s)
                   /\ ticket'.end_date = Some(e)
             /\ ~IsOk(last'.res) =>
                   /\ ErrKind(last'.res) = "InvalidDateRange"
                   /\ ticket'.start_date = ticket.start_date
                   /\ ticket'.end_date = ticket.end_date]_vars

\* C7 witness: a range with equal ends was accepted, at a moment later than
\* the ticket's creation.
C7_Witness ==
    /\ last.op = "set_date_range"
    /\ IsOk(last.res)
    /\ last.args[1] = last.args[2]
    /\ ticket.start_date = ticket.end_date
    /\ ticket.updated_at > ticket.created_at

\* C8: set_start_date(d) fails with InvalidDateRange exactly when an end date
\* is present and earlier than d, set_end_date(d) exactly when a start date is
\* present and later than d (an equal date is accepted, an absent other bound
\* always succeeds); a failed call leaves both dates and updated_at unchanged.
C8_SingleDateSetters ==
    [][/\ \A d \in Dates :
            SetStartDate(d) =>
               /\ ~IsOk(last'.res) <=>
                     (IsSome(ticket.end_date) /\ ticket.end_date[1] < d)
               /\ ~IsOk(last'.res) =>
                     /\ ErrKind(last'.res) = "InvalidDateRange"
                     /\ ticket'.start_date = ticket.start_date
                     /\ ticket'.end_date = ticket.end_date
                     /\ ticket'.updated_at = ticket.updated_at
       /\ \A d \in Dates :
            SetEndDate(d) =>
               /\ ~IsOk(last'.res) <=>
                     (IsSome(ticket.start_date) /\ ticket.start_date[1] > d)
               /\ ~IsOk(last'.res) =>
                     /\ ErrKind(last'.res) = "InvalidDateRange"
                     /\ ticket'.start_date = ticket.start_date
                     /\ ticket'.end_date = ticket.end_date
                     /\ ticket'.updated_at = ticket.updated_at]_vars

\* C8 witness: set_start_date was refused at a moment later than the last
\* update, and updated_at still shows the earlier moment.
C8_Witness ==
    /\ last.op = "set_start_date"
    /\ ErrKind(last.res) = "InvalidDateRange"
    /\ IsSome(ticket.end_date)
    /\ ticket.updated_at < now

\* C9: all_acceptance_criteria_completed is true if and only if the criteria
\* list is non-empty and every criterion in it is completed; it is false for a
\* ticket with no criteria, also once all of them were removed.
C9_AllCompletedIffNonEmptyAndAll ==
    AllAcceptanceCriteriaCompleted(ticket) <=>
        /\ Len(ticket.acceptance_criteria) > 0
        /\ \A i \in 1..Len(ticket.acceptance_criteria) :
              ticket.acceptance_criteria[i].completed

\* C9 witness: the last criterion was just removed, and the check answers
\* false on the empty list.
C9_Witness ==
    /\ last.op = "remove_acceptance_criterion"
    /\ IsOk(last.res)
    /\ Len(ticket.acceptance_criteria) = 0
    /\ ~AllAcceptanceCriteriaCompleted(ticket)

\* C10: in every reachable ticket state can_mark_done is true if and only if
\* the status is Review and the criteria list is non-empty with every
\* criterion completed.
C10_CanMarkDoneIffReviewAndAll ==
    CanMarkDone(ticket) <=>
        /\ ticket.status = "Review"
        /\ Len(ticket.acceptance_criteria) > 0
        /\ \A i \in 1..Len(ticket.acceptance_criteria) :
              ticket.acceptance_criteria[i].completed

\* C10 witness: a ticket in Review with two completed criteria can be marked
\* done.
C10_Witness ==
    /\ CanMarkDone(ticket)
    /\ Len(ticket.acceptance_criteria) = 2

\* C11: for every acceptance criterion, after creation and after any
\* sequence of mark_completed, mark_incomplete and toggle calls, completed_at
\* is present if and only if completed is true; toggle flips completed.
C11_StampIffCompleted ==
    /\ [](\A i \in 1..Len(ticket.acceptance_criteria) :
              IsSome(ticket.acceptance_criteria[i].completed_at)
                 <=> ticket.acceptance_criteria[i].completed)
    /\ [][\A i \in 1..MaxCriteria :
              Toggle(i) =>
                 ticket'.acceptance_criteria[i].completed
                    = ~ticket.acceptance_criteria[i].completed]_vars

\* C11 witness: a toggle has just taken a criterion back to incomplete, and
\* its completed_at is gone.
C11_Witness ==
    /\ last.op = "toggle"
    /\ ~ticket.acceptance_criteria[last.args[1]].completed
    /\ ticket.acceptance_criteria[last.args[1]].completed_at = None

IsWithout(before, after, k) ==
    /\ k \in 1..Len(before)
    /\ Len(after) = Len(before) - 1
    /\ \A i \in 1..(k - 1) : after[i] = before[i]
    /\ \A i \in k..Len(after) : after[i] = before[i + 1]

\* C13: add_acceptance_criterion appends a criterion with ordinal = (length
\* before the call) + 1 and completed = false; a successful
\* remove_acceptance_criterion deletes exactly one criterion and leaves the
\* ordinal, description, completion state and order of the others unchanged.
C13_AddAppendsRemoveKeepsOthers ==
    [][/\ \A d \in AcDescriptions :
            AddAcceptanceCriterionWithin(d, MaxOrdinals) =>
               LET before == ticket.acceptance_criteria
                   after == ticket'.acceptance_criteria
               IN  /\ Len(after) = Len(before) + 1
                   /\ SubSeq(after, 1, Len(before)) = before
                   /\ after[Len(after)].id = Len(before) + 1
                   /\ after[Len(after)].description = d
                   /\ after[Len(after)].completed = FALSE
                   /\ after[Len(after)].completed_at = None
       /\ \A x \in RemoveIdentifiersWide :
            (RemoveAcceptanceCriterion(x) /\ IsOk(last'.res)) =>
               \E k \in 1..Len(ticket.acceptance_criteria) :
                  IsWithout(ticket.acceptance_criteria,
                            ticket'.acceptance_criteria, k)]_vars

\* C13 witness: criterion 2 of 3 was removed and the list holds the ordinals
\* 1 and 3, the first still completed.
C13_Witness ==
    /\ last.op = "remove_acceptance_criterion"
    /\ last.args[1] = <<"2">>
    /\ Len(ticket.acceptance_criteria) = 2
    /\ ticket.acceptance_criteria[1].id = 1
    /\ ticket.acceptance_criteria[1].completed
    /\ ticket.acceptance_criteria[2].id = 3

\* the least element of a non-empty set of positions
FirstOf(positions) == CHOOSE i \in positions : \A j \in positions : i <= j

\* C14: remove_acceptance_criterion(x): when x is a decimal number n (what
\* parse::<usize> reads) with 1 <= n <= len, the criterion at position n is
\* removed, whatever its ordinal; otherwise the first criterion whose
\* description equals x is removed; when neither applies the call fails with
\* AcceptanceCriteriaNotFound and the list and updated_at are unchanged.
C14_RemoveByIndexThenDescription ==
    [][\A x \in RemoveIdentifiersWide :
          RemoveAcceptanceCriterion(x) =>
             LET c == ticket.acceptance_criteria
                 n == ParseUnsigned(x)
                 matches == {i \in 1..Len(c) : c[i].description = x}
             IN  IF IsSome(n) /\ 1 <= n[1] /\ n[1] <= Len(c)
                 THEN /\ IsOk(last'.res)
                      /\ IsWithout(c, ticket'.acceptance_criteria, n[1])
                 ELSE IF matches # {}
                 THEN /\ IsOk(last'.res)
                      /\ IsWithout(c, ticket'.acceptance_criteria, FirstOf(matches))
                 ELSE /\ ErrKind(last'.res) = "AcceptanceCriteriaNotFound"
                      /\ ticket'.acceptance_criteria = c
                      /\ ticket'.updated_at = ticket.updated_at]_vars

\* C14 witness: remove("2") took out position 2 although the criterion
\* described "2", of ordinal 2, is in the list: it is now the only one.
C14_Witness ==
    /\ last.op = "remove_acceptance_criterion"
    /\ last.args[1] = <<"2">>
    /\ IsOk(last.res)
    /\ Len(ticket.acceptance_criteria) = 1
    /\ ticket.acceptance_criteria[1].description = <<"2">>
    /\ ticket.acceptance_criteria[1].id = 2
    /\ ticket.updated_at > ticket.created_at

\* C15: every successful transition_to(s, r), a self-transition included,
\* sets rejection_reason to exactly r: a stored reason is overwritten, and
\* cleared when r is none.
C15_ReasonOverwritten ==
    [][\A s \in Statuses, r \in Reasons :
          (TransitionTo(s, r) /\ IsOk(last'.res)) =>
              ticket'.rejection_reason = r]_vars

\* C15 witness: a transition_to(Review, none) succeeded, which is reached
\* only through InProgress, and no reason is stored.
C15_Witness ==
    /\ last.op = "transition_to"
    /\ last.args = <<"Review", None>>
    /\ IsOk(last.res)
    /\ ticket.rejection_reason = None
    /\ ticket.updated_at = MaxClock

\* C16: once the status is Closed, every transition_to with a target other
\* than Closed fails, and the status is Closed in every later state.
C16_ClosedIsTerminal ==
    [][ticket.status = "Closed" =>
          /\ ticket'.status = "Closed"
          /\ (last'.op = "transition_to" /\ last'.args[1] # "Closed")
                => ErrKind(last'.res) = "InvalidStatusTransition"]_vars

\* C16 witness: a closed ticket refused the way back to Done, after other
\* calls on it.
C16_Witness ==
    /\ ticket.status = "Closed"
    /\ last.op = "transition_to"
    /\ last.args[1] = "Done"
    /\ ~IsOk(last.res)
    /\ IsSome(ticket.end_date)

\* C17: for every counter n, parsing the text of TicketId::new(n) succeeds
\* and yields an identifier equal to TicketId::new(n).
C17_ParseOfNewIsNew ==
    \A n \in Counters :
        (/\ input = TicketIdNew(n)
         /\ IsSome(parsedId)
         /\ parsedId[1].parser = "TicketId")
            => parsedId[1].res = <<"Ok", TicketIdNew(n)>>

\* C17 witness: the text of TicketId::new(100) has been parsed back.
C17_WitnessHundred ==
    /\ input = TicketIdNew(100)
    /\ IsSome(parsedId)
    /\ parsedId[1].parser = "TicketId"
    /\ parsedId[1].res = <<"Ok", <<"H", "L", "A", "1", "0", "0">>>>

\* the text is some casing of the prefix followed by a non-empty run of
\* decimal digits
IsAnyCasePrefixThenDigits(s) ==
    /\ Len(s) > 3
    /\ ToUppercase(SubSeq(s, 1, 3)) = <<"H", "L", "A">>
    /\ \A i \in 4..Len(s) : IsDigit(s[i])

\* C18: identifier parsing is case-insensitive on the prefix and normalizes
\* to upper case: any casing of the prefix followed by <n> parses to the
\* identifier parsed from "HLA<n>".
C18_TicketIdParseIgnoresCase ==
    (/\ IsSome(parsedId)
     /\ parsedId[1].parser = "TicketId"
     /\ IsAnyCasePrefixThenDigits(input))
        => parsedId[1].res
              = TicketIdFromStr(<<"H", "L", "A">> \o SubSeq(input, 4, Len(input)))

\* C19: identifier parsing succeeds only for the prefix followed by a
\* non-empty sequence of decimal digits; it fails with the invalid-identifier
\* error when the prefix is absent, the remainder is empty, or the remainder
\* holds a character that is not a digit.
C19_TicketIdParseOnlyDigits ==
    (IsSome(parsedId) /\ parsedId[1].parser = "TicketId") =>
        IF /\ StartsWith(input, <<"H", "L", "A">>)
           /\ Len(input) > 3
           /\ \A i \in 4..Len(input) : IsDigit(input[i])
        THEN TRUE
        ELSE ErrKind(parsedId[1].res) = "InvalidTicketId"

\* C20 as stated: load_ticket(id) fails with TicketNotFound whenever no
\* ticket with that id is stored, and load_board fails with
\* BoardNotInitialized whenever it is called before initialize() has run.
C20_LoadBoardFailsBeforeInitialize ==
    /\ (storeLast.op = "load_ticket" /\ storeLast.args[1] \notin storedIds)
          => ErrKind(storeLast.res) = "TicketNotFound"
    /\ (storeLast.op = "load_board" /\ ~initialized)
          => ErrKind(storeLast.res) = "BoardNotInitialized"

\* C20, amended: load_ticket(id) fails with TicketNotFound whenever no ticket
\* with that id is stored, and load_board fails with BoardNotInitialized
\* whenever it is called before any initialize() or save_board() has run.
C20_LoadBoardFailsBeforeBoardWritten ==
    /\ (storeLast.op = "load_ticket" /\ storeLast.args[1] \notin storedIds)
          => ErrKind(storeLast.res) = "TicketNotFound"
    /\ (storeLast.op = "load_board" /\ ~initialized /\ saves = 0)
          => ErrKind(storeLast.res) = "BoardNotInitialized"

\* C20 witness: load_board failed on a store that holds a ticket but on which
\* neither initialize nor save_board has run.
C20_Witness ==
    /\ storeLast.op = "load_board"
    /\ ErrKind(storeLast.res) = "BoardNotInitialized"
    /\ storedIds # {}
    /\ ~initialized
    /\ saves = 0

\* C21: after save_ticket(t), load_ticket(t.id) returns a ticket equal to t
\* in every field until the next save_ticket or delete_ticket for that id;
\* a later save replaces the value, calls for other ids do not change it.
C21_LoadReturnsLastSaved ==
    \A id \in StoreIds :
        (/\ storeLast.op = "load_ticket"
         /\ storeLast.args[1] = id
         /\ IsSome(savedTickets[id]))
            => storeLast.res = <<"Ok", savedTickets[id][1]>>

\* C21 witness: HLA10 was loaded with both dates while HLA2 is stored as the
\* worked-on ticket.
C21_Witness ==
    /\ storeLast.op = "load_ticket"
    /\ storeLast.args[1] = TicketIdNew(10)
    /\ IsOk(storeLast.res)
    /\ storeLast.res[2].start_date = Some(1)
    /\ storeLast.res[2].end_date = Some(2)
    /\ savedTickets[TicketIdNew(2)] = Some(WorkedTicket(TicketIdNew(2)))

\* C22: delete_ticket(id) fails with TicketNotFound and changes nothing when
\* no ticket with that id is stored; otherwise it removes exactly that ticket:
\* load_ticket(id) then fails with TicketNotFound, list_ticket_ids no longer
\* contains id, and every other stored ticket and the stored Board, its
\* membership index included, are unchanged.
C22_DeleteRemovesExactlyOne ==
    [][\A id \in StoreIds :
          DeleteTicket(id) =>
             IF id \notin storedIds
             THEN /\ ErrKind(storeLast'.res) = "TicketNotFound"
                  /\ UNCHANGED <<ticketFiles, boardFile, foreignEntries,
                                 rootDir, ticketsDir, gitignore>>
             ELSE /\ IsOk(storeLast'.res)
                  /\ ErrKind(LoadTicketOf(ticketFiles', id)) = "TicketNotFound"
                  /\ LET listed == ListTicketIdsOf(ticketsDir', ticketFiles',
                                                   foreignEntries')
                     IN  \A i \in 1..Len(listed) : listed[i] # id
                  /\ \A other \in StoreIds \ {id} :
                        ticketFiles'[other] = ticketFiles[other]
                  /\ UNCHANGED <<boardFile, foreignEntries>>]_vars

\* C22 witness: HLA2 was deleted while the stored Board still has HLA2 in its
\* index and HLA10 is stored.
C22_Witness ==
    /\ storeLast.op = "delete_ticket"
    /\ storeLast.args[1] = TicketIdNew(2)
    /\ IsOk(storeLast.res)
    /\ IsSome(boardFile)
    /\ <<TicketIdNew(2), TicketIdNew(2)>> \in boardFile[1].tickets
    /\ storedIds = {TicketIdNew(10)}

\* C23: list_ticket_ids returns exactly the identifiers saved and not deleted
\* since, each once, in ascending lexicographic order of their text (HLA10
\* before HLA2); entries whose name is not <valid identifier>.json are
\* skipped, and without a tickets directory the result is the empty list.
C23_ListIsStoredSorted ==
    storeLast.op = "list_ticket_ids" =>
        /\ IsOk(storeLast.res)
        /\ LET listed == storeLast.res[2]
           IN  /\ {listed[i] : i \in 1..Len(listed)} = storedIds
               /\ Len(listed) = Cardinality(storedIds)
               /\ (Len(listed) = 2 =>
                      listed = <<<<"H", "L", "A", "1", "0">>, <<"H", "L", "A", "2">>>>)
               /\ (~ticketsDir => listed = <<>>)

\* C23 witness: HLA10 is listed before HLA2 while hla1.json and HLA2.txt lie
\* in the directory.
C23_Witness ==
    /\ storeLast.op = "list_ticket_ids"
    /\ storeLast.res[2] = <<TicketIdNew(10), TicketIdNew(2)>>
    /\ <<"h", "l", "a", "1", ".", "j", "s", "o", "n">> \in foreignEntries
    /\ <<"H", "L", "A", "2", ".", "t", "x", "t">> \in foreignEntries

\* C24: search_tickets(q) returns exactly the stored tickets for which the
\* lower-cased q is a substring of the lower-cased title, of the lower-cased
\* description when there is one, or of the lower-cased description of some
\* acceptance criterion; each once, in list_ticket_ids order; an empty store
\* or a query without a match gives the empty list.
C24_SearchReturnsMatches ==
    storeLast.op = "search_tickets" =>
        LET q == ToLowercase(storeLast.args[1])
            Hit(t) ==
                \/ Contains(ToLowercase(t.title), q)
                \/ IsSome(t.description)
                      /\ Contains(ToLowercase(t.description[1]), q)
                \/ \E i \in 1..Len(t.acceptance_criteria) :
                      Contains(ToLowercase(t.acceptance_criteria[i].description), q)
            expected == {savedTickets[id][1] :
                            id \in {i \in storedIds : Hit(savedTickets[i][1])}}
            found == storeLast.res[2]
        IN  /\ IsOk(storeLast.res)
            /\ {found[i] : i \in 1..Len(found)} = expected
            /\ Len(found) = Cardinality(expected)
            /\ (Len(found) = 2 =>
                   /\ found[1].id = <<"H", "L", "A", "1", "0">>
                   /\ found[2].id = <<"H", "L", "A", "2">>)

\* C24 witness: the query "aC" found only the ticket with the criterion "AC"
\* while two tickets are stored.
C24_Witness ==
    /\ storeLast.op = "search_tickets"
    /\ storeLast.args[1] = <<"a", "C">>
    /\ Len(storeLast.res[2]) = 1
    /\ storeLast.res[2][1] = WorkedTicket(TicketIdNew(2))
    /\ Cardinality(storedIds) = 2

\* C25: initialize is idempotent: on an uninitialized store it creates the
\* root directory, the tickets directory and a default Board
\* (next_ticket_number = 1, empty index); where a board exists it leaves the
\* stored Board and every stored ticket unchanged, however often it is called.
C25_InitializeIdempotent ==
    [][Initialize =>
          /\ IsOk(storeLast'.res)
          /\ rootDir' /\ ticketsDir' /\ IsSome(boardFile')
          /\ ticketFiles' = ticketFiles
          /\ IF IsSome(boardFile)
             THEN boardFile' = boardFile
             ELSE /\ DeserializeBoard(boardFile'[1]) = BoardDefault
                  /\ DeserializeBoard(boardFile'[1]).next_ticket_number = 1
                  /\ DeserializeBoard(boardFile'[1]).tickets = {}
          /\ initialized =>
                UNCHANGED <<rootDir, ticketsDir, gitignore, boardFile, ticketFiles>>]_vars

\* C25 witness: initialize has run on a store whose Board had advanced to 2
\* and registered nothing, with a ticket stored; the Board is still that one.
C25_Witness ==
    /\ storeLast.op = "initialize"
    /\ IsSome(boardFile)
    /\ DeserializeBoard(boardFile[1]).next_ticket_number = 2
    /\ storedIds # {}
    /\ initialized

\* C26: is_initialized returns true iff the root directory and the board file
\* both exist: false on a fresh store, true after initialize, and in every
\* reachable state true exactly when load_board does not fail with
\* BoardNotInitialized.
C26_IsInitializedIffBoardLoads ==
    storeLast.op = "is_initialized" =>
        /\ storeLast.res[2] = (rootDir /\ boardFile # None)
        /\ storeLast.res[2]
              = (ErrKind(LoadBoardOf(boardFile)) # "BoardNotInitialized")
        /\ (~initialized /\ saves = 0) => ~storeLast.res[2]
        /\ initialized => storeLast.res[2]

\* C26 witness: is_initialized answered false on a store that has the root
\* directory (a ticket was saved) but no board file.
C26_Witness ==
    /\ storeLast.op = "is_initialized"
    /\ storeLast.res[2] = FALSE
    /\ rootDir
    /\ storedIds # {}

\* C27: when two save_ticket calls for the same identifier, or two
\* save_board calls, run concurrently with different values, both succeed and
\* afterwards the stored value is the one written last; saves under different
\* identifiers leave both tickets stored, in every interleaving.
C27_LastWriteWins ==
    (\A p \in Procs : writer[p].pc = "done") =>
        \A i \in 1..Len(writeOrder) :
            (\A j \in (i + 1)..Len(writeOrder) :
                writer[writeOrder[j]].job.path # writer[writeOrder[i]].job.path)
              => raceFiles[writer[writeOrder[i]].job.path]
                    = Some(Blocks(writer[writeOrder[i]].job.value))

\* the mutating operations of impl Ticket
MutatorOps ==
    {"set_description", "set_start_date", "set_end_date", "set_date_range",
     "clear_start_date", "clear_end_date", "add_acceptance_criterion",
     "remove_acceptance_criterion", "transition_to"}

\* C28: every mutating operation on a ticket, when it succeeds, sets
\* updated_at to the current clock value; with a non-decreasing clock
\* updated_at never decreases and is always >= created_at.
C28_MutatorsRefreshUpdatedAt ==
    /\ [](ticket.updated_at >= ticket.created_at)
    /\ [][/\ (last'.op \in MutatorOps /\ IsOk(last'.res))
                => ticket'.updated_at = now'
          /\ ticket'.updated_at >= ticket.updated_at]_vars

\* C28 witness: clear_end_date at the last clock value has refreshed
\* updated_at on a ticket created at 0.
C28_Witness ==
    /\ last.op = "clear_end_date"
    /\ ticket.updated_at = MaxClock
    /\ ticket.created_at = 0
    /\ Len(ticket.acceptance_criteria) > 0

\* the keys of the membership index
RegisteredKeys(b) == {e[1] : e \in b.tickets}

\* C29: add_ticket of an identifier already in the membership index leaves
\* the Board unchanged; every registered identifier is stored under the key
\* equal to its own string form, one entry per key; add_ticket never changes
\* next_ticket_number or the column configuration.
C29_AddTicketIdempotent ==
    /\ [](/\ \A e \in board.tickets : e[1] = e[2]
          /\ Cardinality(RegisteredKeys(board)) = Cardinality(board.tickets))
    /\ [][\A n \in 1..MaxTicketNumber :
            AddTicket(TicketIdNew(n)) =>
                /\ board'.next_ticket_number = board.next_ticket_number
                /\ board'.config = board.config
                /\ <<TicketIdNew(n), TicketIdNew(n)>> \in board'.tickets
                /\ TicketIdNew(n) \in RegisteredKeys(board) => board' = board]_vars

\* C29 witness: after identifiers were minted, add_ticket has registered one
\* of them in an index that holds another one as well.
C29_Witness ==
    /\ boardLast.op = "add_ticket"
    /\ boardLast.args = <<TicketIdNew(1)>>
    /\ board.tickets = {<<TicketIdNew(1), TicketIdNew(1)>>,
                        <<TicketIdNew(2), TicketIdNew(2)>>}
    /\ board.next_ticket_number = 3

\* the date a ticket is sorted by under SortField::Start and SortField::End
SortDate(t) == IF field = "Start" THEN t.start_date ELSE t.end_date

\* C30: after sort_tickets by Start or by End, every ticket that has that
\* date stands before every ticket that lacks it, for Ascending and for
\* Descending.
C30_DatedBeforeUndated ==
    (IsSome(sortInput) /\ field \in {"Start", "End"}) =>
        \A i \in 1..Len(tickets), j \in 1..Len(tickets) :
            (IsSome(SortDate(tickets[i])) /\ ~IsSome(SortDate(tickets[j])))
                => i < j

\* the statuses in the order of the workflow
WorkflowOrder == <<"New", "Open", "InProgress", "Pending", "Review", "Done", "Closed">>

WorkflowRank(st) == CHOOSE i \in 1..Len(WorkflowOrder) : WorkflowOrder[i] = st

\* how often a ticket occurs in a slice
Occurrences(ts, t) == Cardinality({i \in 1..Len(ts) : ts[i] = t})

\* the tickets of a slice that compare Equal to t under the field, in order
EqualClass(ts, t) ==
    LET IsEqual(u) == TicketCmp(u, t, field, "Ascending") = "Equal"
    IN  SelectSeq(ts, IsEqual)

ColumnHits == {i \in 1..Len(board.config.columns) :
                  board.config.columns[i].status = boardLast.args[1]}

\* C32: the default Board has 7 columns, one per status, in workflow order,
\* and get_column_for_status returns the column of the status; the agent is
\* enabled only for InProgress, whose mode is Unattended, and the mode is
\* absent for every other status. For any configuration
\* get_column_for_status returns the first column with the status, or
\* absent when no column has it, and then the agent is disabled and there is
\* no mode.
C32_ColumnQueries ==
    LET cols == board.config.columns
        st == boardLast.args[1]
        res == boardLast.res
    IN  /\ board.config = BoardConfigDefault =>
            /\ Len(cols) = 7
            /\ \A i \in 1..7 : cols[i].status = WorkflowOrder[i]
            /\ boardLast.op = "get_column_for_status" =>
                    IsSome(res) /\ res[1].status = st
            /\ boardLast.op = "is_agent_enabled_for_status" =>
                    (res <=> st = "InProgress")
            /\ boardLast.op = "get_agent_mode_for_status" =>
                    res = IF st = "InProgress" THEN Some("Unattended") ELSE None
        /\ boardLast.op = "get_column_for_status" =>
            /\ ColumnHits = {} <=> res = None
            /\ ColumnHits # {} =>
                    \E i \in ColumnHits :
                        /\ res = Some(cols[i])
                        /\ \A j \in ColumnHits : i <= j
        /\ (boardLast.op = "is_agent_enabled_for_status" /\ ColumnHits = {}) =>
                res = FALSE
        /\ (boardLast.op = "get_agent_mode_for_status" /\ ColumnHits = {}) =>
                res = None

\* C32 witness: on a configuration with two InProgress columns and none for
\* Done, get_column_for_status(InProgress) has returned the first of them.
C32_Witness ==
    /\ boardLast.op = "get_column_for_status"
    /\ boardLast.args = <<"InProgress">>
    /\ board.config.columns
            = <<Column("New", "New"), Column("Doing", "InProgress"),
                WithAgent(Column("Bot", "InProgress"), "Attended")>>
    /\ boardLast.res = Some(Column("Doing", "InProgress"))

\* C33: a transition_to call that fails does so with InvalidStatusTransition
\* and leaves the ticket as it was: status, rejection_reason (also when the
\* call supplied a reason), updated_at, dates and criteria.
C33_FailedTransitionChangesNothing ==
    [][(last'.op = "transition_to" /\ ~IsOk(last'.res)) =>
            /\ last'.res[2] = "InvalidStatusTransition"
            /\ ~CanTransitionTo(ticket.status, last'.args[1])
            /\ ticket'.status = ticket.status
            /\ ticket'.rejection_reason = ticket.rejection_reason
            /\ ticket'.updated_at = ticket.updated_at
            /\ ticket'.start_date = ticket.start_date
            /\ ticket'.end_date = ticket.end_date
            /\ ticket'.acceptance_criteria = ticket.acceptance_criteria
            /\ ticket' = ticket]_vars

\* C33 witness: a transition_to(Done, reason) was rejected on an Open ticket
\* without a reason, with a start date and a criterion, last updated before
\* the call.
C33_Witness ==
    /\ last.op = "transition_to"
    /\ ~IsOk(last.res)
    /\ last.args = <<"Done", Some(<<"r">>)>>
    /\ ticket.status = "Open"
    /\ ticket.rejection_reason = None
    /\ IsSome(ticket.start_date)
    /\ Len(ticket.acceptance_criteria) > 0
    /\ ticket.updated_at < now

\* C34: transition_to does not consult the acceptance criteria: whether a
\* call succeeds depends on the two statuses only, so transition_to(Done) on
\* a ticket in Review succeeds also when can_mark_done is false, and a
\* ticket can be Done or Closed while all_acceptance_criteria_completed is
\* false.
C34_TransitionIgnoresCriteria ==
    [][last'.op = "transition_to" =>
            /\ IsOk(last'.res) <=> CanTransitionTo(ticket.status, last'.args[1])
            /\ (ticket.status = "Review" /\ last'.args[1] = "Done") =>
                    /\ IsOk(last'.res)
                    /\ ticket'.status = "Done"
                    /\ ~CanMarkDone(ticket) =>
                            ~AllAcceptanceCriteriaCompleted(ticket')]_vars

\* C34 witness: transition_to(Done) has succeeded on a ticket whose criteria
\* are not all completed.
C34_Witness ==
    /\ last.op = "transition_to"
    /\ last.args[1] = "Done"
    /\ IsOk(last.res)
    /\ ticket.status = "Done"
    /\ Len(ticket.acceptance_criteria) = 2
    /\ ticket.acceptance_criteria[1].completed
    /\ ~ticket.acceptance_criteria[2].completed
    /\ ~AllAcceptanceCriteriaCompleted(ticket)

\* C35: the status becomes Done only in a step from Review, becomes Closed
\* only in a step from Open or Done, and never becomes New again once it has
\* left New.
C35_DoneFromReviewClosedFromOpenOrDone ==
    [][/\ (ticket'.status = "Done" /\ ticket.status # "Done")
            => ticket.status = "Review"
       /\ (ticket'.status = "Closed" /\ ticket.status # "Closed")
            => ticket.status \in {"Open", "Done"}
       /\ ticket.status # "New" => ticket'.status # "New"]_vars

\* C35 witness: a ticket with a criterion has been closed by transition_to
\* after the clock has moved on.
C35_Witness ==
    /\ last.op = "transition_to"
    /\ last.args[1] = "Closed"
    /\ IsOk(last.res)
    /\ ticket.status = "Closed"
    /\ ticket.updated_at > ticket.created_at
    /\ Len(ticket.acceptance_criteria) > 0

\* the statuses a sequence of successful transition_to calls leads to from
\* the statuses in `from`
RECURSIVE ReachableFromSet(_)
ReachableFromSet(from) ==
    LET next == from \cup {t \in Statuses : \E u \in from : CanTransitionTo(u, t)}
    IN  IF next = from THEN from ELSE ReachableFromSet(next)

ReachableFrom(st) == ReachableFromSet({st})

\* C36: from New each of the seven statuses is reachable by successful
\* transition_to calls; from every status other than Closed the status
\* Closed is reachable; Closed is the only status from which no other status
\* can be reached. The ticket's status is always one reachable from New, and
\* Closed is always reachable from it.
C36_AllReachableClosedOnlySink ==
    /\ ReachableFrom("New") = Statuses
    /\ \A st \in Statuses \ {"Closed"} : "Closed" \in ReachableFrom(st)
    /\ \A st \in Statuses : ReachableFrom(st) = {st} <=> st = "Closed"
    /\ ticket.status \in ReachableFrom("New")
    /\ "Closed" \in ReachableFrom(ticket.status)

\* C36 witness: successful calls have brought the ticket to Pending, from
\* where Closed is four calls away.
C36_Witness ==
    /\ last.op = "transition_to"
    /\ IsOk(last.res)
    /\ last.args = <<"Pending", Some(<<"r">>)>>
    /\ ticket.status = "Pending"
    /\ ticket.updated_at = MaxClock

\* the next_ticket_number in the stored Board document, 0 when there is none
PersistedCounter(file) ==
    IF IsSome(file) THEN DeserializeBoard(file[1]).next_ticket_number ELSE 0

\* C37: with a single writer minting by load_board, next_ticket_id,
\* save_board, in any order with initialize, save_ticket and delete_ticket,
\* the persisted next_ticket_number never decreases (and the document, once
\* written, stays), and no identifier is minted twice, also after the ticket
\* that carried it was deleted.
C37_SingleWriterMintsOnce ==
    /\ [](\A i \in 1..Len(minted), j \in 1..Len(minted) :
            i # j => minted[i] # minted[j])
    /\ [][/\ PersistedCounter(boardFile') >= PersistedCounter(boardFile)
          /\ IsSome(boardFile) => IsSome(boardFile')]_vars

\* C37 witness: HLA1 and HLA2 were minted, the ticket HLA2 was saved and
\* deleted, and the next identifier minted is HLA3.
C37_Witness ==
    /\ minted = <<TicketIdNew(1), TicketIdNew(2), TicketIdNew(3)>>
    /\ storeLast = Record("delete_ticket", <<TicketIdNew(2)>>, Ok)
    /\ proc["p1"].pc = "saved"
    /\ PersistedCounter(boardFile) = 4

\* C38: search_tickets lists the identifiers first and loads each ticket
\* afterwards without a lock: a pass that finds the file of a listed
\* identifier gone ends the call with TicketNotFound for that identifier, and
\* a call during which a listed ticket was deleted before its load never
\* returns matches, also when tickets loaded before did match.
C38_SearchFailsOnConcurrentDelete ==
    /\ []((searcher.pc = "done" /\ searcher.doomed) =>
            /\ ~IsOk(searcher.result[1])
            /\ searcher.result[1][2] = "TicketNotFound")
    /\ [][(searcher.pc = "loading" /\ searcher' # searcher
            /\ ~IsSome(ticketFiles[Head(searcher.ticket_ids)])) =>
               /\ searcher'.pc = "done"
               /\ searcher'.result =
                    Some(Err("TicketNotFound", Head(searcher.ticket_ids), None))]_vars

\* C38 witness: HLA10 and HLA2 were listed, HLA10 was loaded and matched,
\* HLA2 was deleted before its load, and the call ended with TicketNotFound.
C38_Witness ==
    /\ searcher.pc = "done"
    /\ searcher.listed = <<TicketIdNew(10), TicketIdNew(2)>>
    /\ Len(searcher.matching_tickets) = 1
    /\ searcher.ticket_ids = <<TicketIdNew(2)>>
    /\ storeLast = Record("delete_ticket", <<TicketIdNew(2)>>, Ok)
    /\ searcher.result = Some(Err("TicketNotFound", TicketIdNew(2), None))

\* the elements of a sequence
Elements(seq) == {seq[i] : i \in 1..Len(seq)}

\* C39: without any initialize call, save_ticket(t) succeeds and makes t
\* loadable and listed while is_initialized is false and load_board fails
\* with BoardNotInitialized; one save_board makes is_initialized true and
\* load_board return the Board saved.
C39_SavesWorkWithoutInitialize ==
    /\ [](/\ ~initialized
          /\ storeLast.op = "is_initialized" => storeLast.res[2] = (saves > 0)
          /\ storeLast.op = "load_board" =>
                IF saves = 0
                THEN ErrKind(storeLast.res) = "BoardNotInitialized"
                ELSE IsOk(storeLast.res)
          /\ (storeLast.op = "load_ticket" /\ storeLast.args[1] \in storedIds) =>
                storeLast.res = <<"Ok", savedTickets[storeLast.args[1]][1]>>
          /\ storeLast.op = "list_ticket_ids" =>
                Elements(storeLast.res[2]) = storedIds)
    /\ [][/\ storeLast'.op = "save_ticket" =>
                /\ IsOk(storeLast'.res)
                /\ LoadTicketOf(ticketFiles', storeLast'.args[1].id)
                      = <<"Ok", storeLast'.args[1]>>
                /\ storeLast'.args[1].id \in
                      Elements(ListTicketIdsOf(ticketsDir', ticketFiles',
                                               foreignEntries'))
                /\ saves = 0 =>
                      /\ ~IsInitializedOf(rootDir', boardFile')
                      /\ ErrKind(LoadBoardOf(boardFile')) = "BoardNotInitialized"
          /\ (storeLast'.op = "save_board" /\ saves' # saves) =>
                /\ IsOk(storeLast'.res)
                /\ IsInitializedOf(rootDir', boardFile')
                /\ LoadBoardOf(boardFile') = <<"Ok", storeLast'.args[1]>>]_vars

\* C39 witness: on a store that was never initialized and has no Board
\* document, two saved tickets are listed.
C39_Witness ==
    /\ ~initialized
    /\ boardFile = None
    /\ ~IsInitializedOf(rootDir, boardFile)
    /\ storeLast.op = "list_ticket_ids"
    /\ storeLast.res[2] = <<TicketIdNew(10), TicketIdNew(2)>>
    /\ savedTickets[TicketIdNew(2)] = Some(WorkedTicket(TicketIdNew(2)))

\* mark_completed, mark_incomplete and toggle on an element of
\* acceptance_criteria
MarkOps == {"mark_completed", "mark_incomplete", "toggle"}

\* C40: completing, un-completing or toggling a criterion changes only that
\* criterion's completed and completed_at: the ticket's updated_at, status,
\* dates, every other field and all other criteria stay as they were.
C40_MarksChangeOnlyTheCriterion ==
    [][last'.op \in MarkOps =>
         LET i == last'.args[1]
             before == ticket.acceptance_criteria
             after == ticket'.acceptance_criteria
         IN  /\ ticket'.updated_at = ticket.updated_at
             /\ ticket'.status = ticket.status
             /\ ticket'.start_date = ticket.start_date
             /\ ticket'.end_date = ticket.end_date
             /\ Len(after) = Len(before)
             /\ \A j \in 1..Len(before) : j # i => after[j] = before[j]
             /\ after[i] = [before[i] EXCEPT
                                !.completed = after[i].completed,
                                !.completed_at = after[i].completed_at]
             /\ ticket' = [ticket EXCEPT !.acceptance_criteria = after]]_vars

\* C40 witness: long after the ticket was last updated, the first of two
\* criteria has been toggled to completed; the second is not completed.
C40_Witness ==
    /\ last.op = "toggle"
    /\ last.args = <<1>>
    /\ Len(ticket.acceptance_criteria) = 2
    /\ ticket.acceptance_criteria[1].completed
    /\ ticket.acceptance_criteria[1].completed_at = Some(MaxClock)
    /\ ~ticket.acceptance_criteria[2].completed
    /\ IsSome(ticket.start_date)
    /\ ticket.updated_at < MaxClock

====
